---- MODULE Spec2Model ----
(***************************************************************************)
(* A model of litellm-codex-oauth-provider.                                *)
(*                                                                         *)
(* Part I   - the bearer-token cache of CodexAuthProvider (provider.py)    *)
(*            over the auth file read by auth.py, with concurrent calls of *)
(*            get_bearer_token.            Specifications SpecAuth,        *)
(*            SpecAuthQuiet.                                               *)
(* Part II  - the buffered SSE parsers (adapter.py, http_client.py).       *)
(*            Specification SpecSSE.                                       *)
(* Part III - transform_response (adapter.py).  Specification SpecXform.   *)
(* Part IV  - fetch_codex_instructions (remote_resources.py).              *)
(*            Specification SpecFetch.                                     *)
(* Part V   - normalize_model and its helpers (model_map.py).              *)
(*            Specification SpecModel.                                     *)
(* Part VI  - apply_reasoning_config (reasoning.py).                       *)
(*            Specification SpecReasoning.                                 *)
(* Part VII - parse_sse_events (sse_utils.py).  Specification SpecEvents.  *)
(* Part VIII- ToolCallTracker (streaming_utils.py).                        *)
(*            Specification SpecTracker.                                   *)
(* Part IX  - derive_instructions (prompts.py) and _build_payload          *)
(*            (provider.py).  Specification SpecRequest.                   *)
(* Part X   - _build_usage and build_streaming_chunk (adapter.py).         *)
(*            Specification SpecAdapter.                                   *)
(* Part XI  - the dispatch of the request over HTTP (provider.py).         *)
(*            Specification SpecDispatch.                                  *)
(***************************************************************************)
EXTENDS Integers, Sequences, FiniteSets, TLC

VARIABLES
    now,      \* time.time(), in seconds
    fmt,      \* the shape of auth.json: where the token lives, and whether
              \* _refresh_token finds a refresh_token in it
    file,     \* the credentials auth.json holds
    ntok,     \* the number of access tokens issued so far
    cache,    \* CodexAuthProvider._cached_token, ._account_id, ._token_expiry
    th,       \* one get_bearer_token activation per thread
    sse,      \* Part II: the SSE body under conversion and its result
    xf,       \* Part III: the payload under transformation and its result
    fi,       \* Part IV: a call of fetch_codex_instructions, and the cache files
    mm,       \* Part V: the model string under normalization
    rc,       \* Part VI: a call of apply_reasoning_config
    es,       \* Part VII: the stream read by parse_sse_events
    tr,       \* Part VIII: a ToolCallTracker
    rq,       \* Part IX: a request under construction by completion
    ad,       \* Part X: a call of _build_usage or build_streaming_chunk
    he        \* Part XI: a dispatch of the request over HTTP

\* The variables of Parts IX to XI.
last == <<rq, ad, he>>

\* The variables of Parts IV to XI.
later == <<fi, mm, rc, es, tr, last>>

vars == <<now, fmt, file, ntok, cache, th, sse, xf, later>>

(***************************************************************************)
(*                              Part I                                     *)
(***************************************************************************)

\* Bounds of the model.
NumThreads == 2
MaxTokens == 2
MaxTicks == 1

\* constants.py
TOKEN_CACHE_BUFFER_SECONDS == 300
TOKEN_DEFAULT_EXPIRY_SECONDS == 3600

Threads == 1..NumThreads
\* Times are multiples of the cache's buffer window: the clock starts at
\* 1500 s and is observed in steps of 1800 s.
StartTime == 5 * TOKEN_CACHE_BUFFER_SECONDS
TickSteps == {6 * TOKEN_CACHE_BUFFER_SECONDS}
EndTime == StartTime + 6 * TOKEN_CACHE_BUFFER_SECONDS * MaxTicks
\* expires_in of the token endpoint's answer.
ExpiresIn == {5 * TOKEN_CACHE_BUFFER_SECONDS}
\* expires_at of the token auth.json holds at the start: none recorded,
\* already passed, or still to come.
InitialExpiresAt == {0, TOKEN_CACHE_BUFFER_SECONDS, 10 * TOKEN_CACHE_BUFFER_SECONDS}
\* Where auth.json keeps the token: under "chatgpt" (or at the top level,
\* which the code treats alike), or under "tokens" (or "auth").
Layouts == {"chatgpt", "tokens"}

NoToken == 0
NoErr == [cls |-> "none", at |-> "none"]
Err(c, a) == [cls |-> c, at |-> a]
NoFile == [present |-> FALSE, token |-> NoToken, expires_at |-> 0]

\* _decode_account_id: the chatgpt_account_id claim inside the token, named
\* after the token that carries it (of NoToken: no account id).
AccountOf(k) == [claim_of |-> k]

\* get_auth_context = _extract_bearer_token then _decode_account_id.
\* The class of the exception raised, or "ok".
AuthRead(f, t) ==
    IF ~f.present THEN "CodexAuthFileNotFoundError"
    ELSE IF f.token = NoToken THEN "CodexAuthTokenError"
    ELSE IF f.expires_at # 0 /\ f.expires_at < t THEN "CodexAuthTokenExpiredError"
    ELSE "ok"

\* The first condition of get_bearer_token: the cache may be served.
CacheFresh(c, t) ==
    /\ c.token # NoToken
    /\ c.expiry # 0
    /\ t < c.expiry - TOKEN_CACHE_BUFFER_SECONDS

\* `except Exception: raise err from None`: what the call raises when the
\* refresh or the re-read failed with `failure` after `original`.
RaiseAfterFailedRefreshMut(original, failure) == failure
RaiseAfterFailedRefresh(original, failure) == original

IdleThread ==
    [pc |-> "idle", ctx |-> NoToken, refreshed |-> NoToken,
     err |-> NoErr, failure |-> NoErr, ret |-> NoToken, refreshes |-> 0]

EmptyCache == [token |-> NoToken, account |-> AccountOf(NoToken), expiry |-> 0, expiry_of |-> NoToken]

SseIdle == [pc |-> "off"]
XfIdle == [pc |-> "off"]
FiIdle == [pc |-> "off"]
MmIdle == [pc |-> "off"]
RcIdle == [pc |-> "off"]
EsIdle == [pc |-> "off"]
TrIdle == [pc |-> "off"]
RqIdle == [pc |-> "off"]
AdIdle == [pc |-> "off"]
HeIdle == [pc |-> "off"]

\* Parts IX to XI are not running.
LastIdle == rq = RqIdle /\ ad = AdIdle /\ he = HeIdle

\* Parts IV to XI are not running.
RestIdle == fi = FiIdle /\ mm = MmIdle /\ rc = RcIdle /\ es = EsIdle /\ tr = TrIdle /\ LastIdle

InitAuth ==
    /\ now = StartTime
    /\ \E l \in Layouts, r \in BOOLEAN : fmt = [layout |-> l, has_refresh |-> r]
    /\ \E e \in InitialExpiresAt, p \in BOOLEAN :
          file = [present |-> p, token |-> 1, expires_at |-> e]
    /\ ntok = 1
    /\ cache = EmptyCache
    /\ th = [t \in Threads |-> IdleThread]
    /\ sse = SseIdle
    /\ xf = XfIdle
    /\ RestIdle

AllIdle == \A t \in Threads : th[t].pc = "idle"

\* ---- the environment ----

\* Time passes.
Tick ==
    /\ \E d \in TickSteps : now + d <= EndTime /\ now' = now + d
    /\ UNCHANGED <<fmt, file, ntok, cache, th, sse, xf, later>>

\* Time passes between calls only: a call is short against a clock step.
TickQuiet ==
    /\ AllIdle
    /\ \E d \in TickSteps : now + d <= EndTime /\ now' = now + d
    /\ UNCHANGED <<fmt, file, ntok, cache, th, sse, xf, later>>

\* The auth file is removed (`codex logout`).
ExternalLogout ==
    /\ file.present
    /\ file' = NoFile
    /\ UNCHANGED <<now, fmt, ntok, cache, th, sse, xf, later>>

\* ---- get_bearer_token, statement by statement ----

\* if self._cached_token and self._token_expiry and time.time() < ... :
\* the three reads only ever see fields that, once set, stay set, so the
\* condition is evaluated in one step.
CheckCache(t) ==
    /\ th[t].pc = "idle"
    /\ th' = [th EXCEPT ![t].pc = IF CacheFresh(cache, now) THEN "hit" ELSE "read"]
    /\ UNCHANGED <<now, fmt, file, ntok, cache, sse, xf, later>>

\* return self._cached_token   (a second read of the field)
ReturnCached(t) ==
    /\ th[t].pc = "hit"
    /\ th' = [th EXCEPT ![t].pc = "returned", ![t].ret = cache.token]
    /\ UNCHANGED <<now, fmt, file, ntok, cache, sse, xf, later>>

\* context = get_auth_context()
GetAuthContext(t) ==
    /\ th[t].pc = "read"
    /\ LET r == AuthRead(file, now) IN
          th' = [th EXCEPT ![t] =
                    IF r = "ok" THEN [@ EXCEPT !.pc = "w1", !.ctx = file.token]
                    ELSE IF r = "CodexAuthTokenExpiredError"
                         THEN [@ EXCEPT !.pc = "refresh", !.err = Err(r, "read")]
                    ELSE [@ EXCEPT !.pc = "raised", !.err = Err(r, "read")]]
    /\ UNCHANGED <<now, fmt, file, ntok, cache, sse, xf, later>>

\* The except branch ends the call: `raise err from None`.
FailedRefresh(t, c, at) ==
    [th[t] EXCEPT !.pc = "raised", !.refreshed = NoToken, !.refreshes = @ + (IF at = "refresh" THEN 1 ELSE 0),
                  !.failure = Err(c, at),
                  !.err = RaiseAfterFailedRefresh(th[t].err, Err(c, at))]

\* refreshed = _refresh_token(), when it raises: auth.json cannot be
\* loaded (_load_auth_data raises, outside the function's try), it holds no
\* refresh token, or the POST or the rewrite of the file fails
\* (CodexAuthRefreshError wraps whatever was raised).
RefreshFails(t) ==
    /\ th[t].pc = "refresh"
    /\ \E c \in {"CodexAuthFileNotFoundError", "CodexAuthRefreshError"} :
          /\ c = "CodexAuthFileNotFoundError" => ~file.present
          /\ th' = [th EXCEPT ![t] = FailedRefresh(t, c, "refresh")]
    /\ UNCHANGED <<now, fmt, file, ntok, cache, sse, xf, later>>

\* refreshed = _refresh_token(), when it returns: the token endpoint
\* answers and auth.json is rewritten with the new access_token and
\* expires_at = time.time() + expires_in. The function writes them under
\* "chatgpt" when the file has that key and at the top level otherwise: under
\* the "tokens" layout that is not where _extract_bearer_token reads.
RefreshSucceeds(t) ==
    /\ th[t].pc = "refresh"
    /\ file.present
    /\ fmt.has_refresh
    /\ ntok < MaxTokens
    /\ ntok' = ntok + 1
    /\ \E x \in ExpiresIn :
          file' = IF fmt.layout = "tokens" THEN file
                  ELSE [present |-> TRUE, token |-> ntok + 1, expires_at |-> now + x]
    /\ th' = [th EXCEPT ![t].pc = "reread", ![t].refreshed = ntok + 1, ![t].refreshes = @ + 1]
    /\ UNCHANGED <<now, fmt, cache, sse, xf, later>>

\* context = get_auth_context() after the refresh; `if refreshed and not
\* context.access_token` never holds, get_auth_context returns no empty token.
Reread(t) ==
    /\ th[t].pc = "reread"
    /\ LET r == AuthRead(file, now) IN
          th' = [th EXCEPT ![t] =
                    IF r = "ok"
                    THEN [@ EXCEPT !.pc = "w1", !.refreshed = NoToken,
                                   !.ctx = IF th[t].refreshed # NoToken /\ file.token = NoToken
                                           THEN th[t].refreshed ELSE file.token]
                    ELSE FailedRefresh(t, r, "reread")]
    /\ UNCHANGED <<now, fmt, file, ntok, cache, sse, xf, later>>

\* self._cached_token = context.access_token
WriteToken(t) ==
    /\ th[t].pc = "w1"
    /\ cache' = [cache EXCEPT !.token = th[t].ctx]
    /\ th' = [th EXCEPT ![t].pc = "w2"]
    /\ UNCHANGED <<now, fmt, file, ntok, sse, xf, later>>

\* self._account_id = context.account_id
WriteAccount(t) ==
    /\ th[t].pc = "w2"
    /\ cache' = [cache EXCEPT !.account = AccountOf(th[t].ctx)]
    /\ th' = [th EXCEPT ![t].pc = "w3"]
    /\ UNCHANGED <<now, fmt, file, ntok, sse, xf, later>>

\* self._token_expiry = time.time() + TOKEN_DEFAULT_EXPIRY_SECONDS
\* return context.access_token
WriteExpiryAndReturn(t) ==
    /\ th[t].pc = "w3"
    /\ cache' = [cache EXCEPT !.expiry = now + TOKEN_DEFAULT_EXPIRY_SECONDS,
                              !.expiry_of = th[t].ctx]
    /\ th' = [th EXCEPT ![t].pc = "returned", ![t].ret = th[t].ctx]
    /\ UNCHANGED <<now, fmt, file, ntok, sse, xf, later>>

\* The caller takes the result; the thread is free for the next call.
Finish(t) ==
    /\ th[t].pc \in {"returned", "raised"}
    /\ th' = [th EXCEPT ![t] = IdleThread]
    /\ UNCHANGED <<now, fmt, file, ntok, cache, sse, xf, later>>

ThreadStep(t) ==
    \/ CheckCache(t)
    \/ ReturnCached(t)
    \/ GetAuthContext(t)
    \/ RefreshFails(t)
    \/ RefreshSucceeds(t)
    \/ Reread(t)
    \/ WriteToken(t)
    \/ WriteAccount(t)
    \/ WriteExpiryAndReturn(t)
    \/ Finish(t)

NextAuth ==
    \/ Tick
    \/ ExternalLogout
    \/ \E t \in Threads : ThreadStep(t)

SpecAuth == InitAuth /\ [][NextAuth]_vars

NextAuthQuiet ==
    \/ TickQuiet
    \/ ExternalLogout
    \/ \E t \in Threads : ThreadStep(t)

SpecAuthQuiet == InitAuth /\ [][NextAuthQuiet]_vars

(***************************************************************************)
(*                              Part II                                    *)
(* The buffered SSE body: convert_sse_to_json, parse_response_body and     *)
(* CodexAPIClient._parse_sse_response.                                     *)
(***************************************************************************)

\* The longest body, in lines.
MaxLines == 2

\* A JSON value as the parsers see it: a key that is absent (or null), a
\* value that is no mapping (a string, a number, a list), the empty mapping,
\* or a mapping named by id. `dumped` tells a mapping that already has the
\* form the typed Response model dumps (every field of the model explicit).
V(k, id, dumped) == [k |-> k, id |-> id, dumped |-> dumped]
Absent == V("absent", 0, FALSE)
Scalar == V("scalar", 0, FALSE)
EmptyMap == V("emptymap", 0, FALSE)
ResponseMaps == {V("map", 1, FALSE), V("map", 1, TRUE), V("map", 2, FALSE)}
DataMaps == {V("map", 3, FALSE)}

\* isinstance(v, Mapping)
IsMapping(v) == v.k \in {"map", "emptymap"}
\* bool(v)
Truthy(v) == v.k \in {"map", "scalar"}

TerminalTypes == {"response.done", "response.completed"}
EventTypes == TerminalTypes \cup {"response.in_progress"}

\* One decoded event. schema_ok: the openai typed models accept the event
\* and its response (ResponseStreamEvent.model_validate and
\* Response.model_validate both succeed); they accept no event without a
\* response object. A data payload is given where no response object is.
Events ==
    {e \in [type : EventTypes, response : {Absent, Scalar, EmptyMap} \cup ResponseMaps,
            data : {Absent} \cup DataMaps, schema_ok : BOOLEAN] :
        /\ e.schema_ok => e.response \in ResponseMaps
        /\ e.data # Absent => (e.type \in TerminalTypes /\ e.response \notin ResponseMaps)}
NoEvent == [type |-> "none", response |-> Absent, data |-> Absent, schema_ok |-> FALSE]

\* One line of the body:
\*   "field"   event: ...          (another SSE field)
\*   "blank"   an empty line
\*   "done"    data: [DONE]
\*   "empty"   data:
\*   "garbage" data: <not JSON>
\*   "nonmap"  data: <JSON, but no object>
\*   "event"   data: <a JSON object>
\*   "indented"  the same with white space before `data:`
Line(kind, ev) == [kind |-> kind, ev |-> ev]
IndentedEvents == {e \in Events : e.type = "response.completed" /\ e.response = V("map", 2, FALSE) /\ ~e.schema_ok}
Lines ==
    {Line(k, NoEvent) : k \in {"field", "blank", "done", "empty", "garbage", "nonmap"}}
        \cup {Line("event", e) : e \in Events}
        \cup {Line("indented", e) : e \in IndentedEvents}
Bodies == UNION {[1..n -> Lines] : n \in 0..MaxLines}

\* What a parser hands back: a payload, a whole event, or an exception.
Payload(v) == [kind |-> "payload", val |-> v, ev |-> NoEvent]
WholeEvent(e) == [kind |-> "event", val |-> Absent, ev |-> e]
Raised(what) == [kind |-> what, val |-> Absent, ev |-> NoEvent]

\* convert_sse_to_json, lines 250-262: the events of the body.
RECURSIVE ParseDataLines(_)
ParseDataLines(body) ==
    IF body = <<>> THEN <<>>
    ELSE LET rest == ParseDataLines(SubSeq(body, 1, Len(body) - 1))
             l == body[Len(body)]
         IN IF l.kind = "event" THEN Append(rest, l.ev) ELSE rest

\* Response.model_validate(response_payload).model_dump()
ModelDump(v) == [v EXCEPT !.dumped = TRUE]

\* _extract_validated_response_from_events: None is Absent.
RECURSIVE ValidatedScan(_, _)
ValidatedScan(events, i) ==
    IF i = 0 THEN Absent
    ELSE IF events[i].schema_ok THEN ModelDump(events[i].response)
    ELSE ValidatedScan(events, i - 1)
ExtractValidatedResponseFromEvents(events) == ValidatedScan(events, Len(events))

\* response_payload = event.get("response") or event.get("data")
TerminalPayload(e) == IF Truthy(e.response) THEN e.response ELSE e.data

\* The reverse scan of _extract_response_from_events: one loop, and both
\* tests made on each event before the next one is looked at.
RECURSIVE ReverseScan(_, _)
ReverseScan(events, i) ==
    IF i = 0 THEN Absent
    ELSE IF events[i].type \in TerminalTypes /\ IsMapping(TerminalPayload(events[i]))
    THEN TerminalPayload(events[i])
    ELSE IF IsMapping(events[i].response) THEN events[i].response
    ELSE ReverseScan(events, i - 1)

\* _extract_response_from_events
ExtractResponseFromEvents(events) ==
    LET found == ReverseScan(events, Len(events)) IN
        IF found # Absent THEN Payload(found)
        ELSE IF events # <<>> THEN WholeEvent(events[Len(events)])
        ELSE Payload(EmptyMap)

\* convert_sse_to_json
ConvertSseToJson(body) ==
    LET events == ParseDataLines(body)
        validated == ExtractValidatedResponseFromEvents(events)
    IN IF Truthy(validated) THEN Payload(validated)
       ELSE ExtractResponseFromEvents(events)

\* bool(parsed) of a parser's result
TruthyResult(r) == r.kind = "event" \/ (r.kind = "payload" /\ Truthy(r.val))

\* body_text.lstrip().startswith("event:")
RECURSIVE StartsWithEventField(_)
StartsWithEventField(body) ==
    /\ body # <<>>
    /\ \/ body[1].kind = "field"
       \/ body[1].kind = "blank" /\ StartsWithEventField(Tail(body))

\* parse_response_body: content_type_sse tells that the Content-Type holds
\* text/event-stream. A body of these lines is no JSON document, so the
\* JSON branch ends in its RuntimeError.
ParseResponseBody(content_type_sse, body) ==
    IF content_type_sse \/ StartsWithEventField(body)
    THEN LET parsed == ConvertSseToJson(body) IN
            IF TruthyResult(parsed) THEN parsed ELSE Raised("RuntimeError: no final response event")
    ELSE Raised("RuntimeError: not JSON")

\* CodexAPIClient._parse_sse_response, lines 283-300: the lines are
\* stripped first, and every decoded value is kept, mapping or not.
RECURSIVE HttpParseDataLines(_)
HttpParseDataLines(body) ==
    IF body = <<>> THEN <<>>
    ELSE LET rest == HttpParseDataLines(SubSeq(body, 1, Len(body) - 1))
             l == body[Len(body)]
         IN IF l.kind \in {"event", "indented", "nonmap"} THEN Append(rest, l) ELSE rest

\* CodexAPIClient._parse_sse_response, lines 302-317. event.get on a
\* decoded value that is no mapping raises AttributeError.
RECURSIVE HttpReverseScan(_, _)
HttpReverseScan(kept, i) ==
    IF i = 0 THEN Absent
    ELSE IF kept[i].kind = "nonmap" THEN V("AttributeError", 0, FALSE)
    ELSE IF kept[i].ev.type \in TerminalTypes /\ IsMapping(TerminalPayload(kept[i].ev))
    THEN TerminalPayload(kept[i].ev)
    ELSE IF IsMapping(kept[i].ev.response) THEN kept[i].ev.response
    ELSE HttpReverseScan(kept, i - 1)

ParseSseResponse(body) ==
    LET kept == HttpParseDataLines(body)
        found == HttpReverseScan(kept, Len(kept))
    IN IF found.k = "AttributeError" THEN Raised("AttributeError")
       ELSE IF found # Absent THEN Payload(found)
       ELSE IF kept # <<>> THEN WholeEvent(kept[Len(kept)].ev)
       ELSE Raised("RuntimeError: no response data")

InitSSE ==
    /\ now = StartTime
    /\ fmt = [layout |-> "chatgpt", has_refresh |-> FALSE]
    /\ file = NoFile
    /\ ntok = 0
    /\ cache = EmptyCache
    /\ th = [t \in Threads |-> IdleThread]
    /\ \E b \in Bodies : sse = [pc |-> "body", fn |-> "none", body |-> b, out |-> Raised("none")]
    /\ xf = XfIdle
    /\ RestIdle

Ran(fn, out) ==
    /\ sse.pc = "body"
    /\ sse' = [sse EXCEPT !.pc = "done", !.fn = fn, !.out = out]
    /\ UNCHANGED <<now, fmt, file, ntok, cache, th, xf, later>>

RunConvertSseToJson == Ran("convert_sse_to_json", ConvertSseToJson(sse.body))
RunExtractResponseFromEvents ==
    Ran("_extract_response_from_events", ExtractResponseFromEvents(ParseDataLines(sse.body)))
RunParseResponseBody ==
    \E ct \in BOOLEAN :
        Ran(IF ct THEN "parse_response_body, text/event-stream" ELSE "parse_response_body",
            ParseResponseBody(ct, sse.body))
RunParseSseResponse == Ran("_parse_sse_response", ParseSseResponse(sse.body))

NextSSE ==
    \/ RunConvertSseToJson
    \/ RunExtractResponseFromEvents
    \/ RunParseResponseBody
    \/ RunParseSseResponse

SpecSSE == InitSSE /\ [][NextSSE]_vars

(***************************************************************************)
(*                              Part III                                   *)
(* transform_response and its helpers. The response of the model is what   *)
(* the adapter hands to the ModelResponse, Choices and Message             *)
(* constructors of litellm: its choices, with index, finish_reason and     *)
(* message.                                                                *)
(***************************************************************************)

\* The longest message.tool_calls list, output array and choices list.
MaxCalls == 2
MaxOutput == 2
MaxChoices == 2

SeqsUpTo(S, n) == UNION {[1..k -> S] : k \in 0..n}

\* A key that is absent, or holds None.
NoKey == "<none>"
NoIndex == 0 - 1

\* An arguments value: nothing, null, a string, a number, a mapping or a
\* list; text is its JSON text (the string itself for a string).
Arg(k, text) == [k |-> k, text |-> text]
NoArg == Arg("absent", "")
ArgNull == Arg("null", "null")
ArgStr == Arg("str", "{\"city\": \"Berlin\"}")
ArgNum == Arg("num", "5")
ArgDict == Arg("dict", "{\"city\": \"Berlin\"}")
ArgList == Arg("list", "[1, 2]")
Arguments == {NoArg, ArgNull, ArgStr, ArgNum, ArgDict, ArgList}

\* json.dumps(arguments)
JsonDumps(a) == Arg("str", a.text)
\* x.get("arguments", "")
ArgOrEmpty(a) == IF a = NoArg THEN Arg("str", "") ELSE a
\* if isinstance(arguments, (dict, list)): arguments = json.dumps(arguments)
StringifyArguments(a) == IF a.k \in {"dict", "list"} THEN JsonDumps(a) ELSE a

\* An id: one the source gave, none, or tool_call_{n}.
Id(text, n) == [text |-> text, n |-> n]
NoId == Id(NoKey, 0)
SyntheticId(n) == Id("tool_call_", n)
\* a or b
OrElse(a, b) == IF a # NoId THEN a ELSE b

\* A name tells where a call comes from: the place of its entry in
\* message.tool_calls or of its item in output.
Name(src, pos) == [src |-> src, pos |-> pos]
NoName == Name(NoKey, 0)

\* One element of message.tool_calls: a mapping with id, call_id, type,
\* function.arguments and arguments, or a value that is no mapping.
Entry(type, function_arguments, arguments) ==
    [is_mapping |-> TRUE, id |-> NoId, call_id |-> NoId, type |-> type, name |-> NoName,
     function_arguments |-> function_arguments, arguments |-> arguments]
ScalarEntry == [Entry(NoKey, NoArg, NoArg) EXCEPT !.is_mapping = FALSE]
PlainEntries == {Entry("function", ArgStr, NoArg)}
SimpleEntries == PlainEntries \cup {ScalarEntry}
RichEntries ==
    {ScalarEntry} \cup {Entry("function", a, NoArg) : a \in Arguments}
        \cup {Entry(NoKey, ArgStr, NoArg), Entry("custom", ArgStr, NoArg), Entry(NoKey, NoArg, ArgDict)}

\* One element of output: a message item with its status and the texts of
\* its content parts, a function_call item, another item, or a string.
Item(kind, status, parts, call_id, arguments) ==
    [kind |-> kind, status |-> status, parts |-> parts, call_id |-> call_id, id |-> NoId,
     name |-> NoName, arguments |-> arguments]
MessageItems ==
    {Item("message", "completed", <<"hi">>, NoId, NoArg),
     Item("message", "in_progress", <<>>, NoId, NoArg)}
PlainCallItems == {Item("function_call", NoKey, <<>>, Id("call_1", 0), ArgStr)}
SimpleItems == MessageItems \cup PlainCallItems
RichItems ==
    SimpleItems \cup {Item("function_call", NoKey, <<>>, NoId, a) : a \in Arguments}
        \cup {Item("reasoning", NoKey, <<>>, NoId, NoArg), Item("string", NoKey, <<"raw">>, NoId, NoArg)}

\* A list with each element named by its place.
Named(src, seq) == [i \in 1..Len(seq) |-> [seq[i] EXCEPT !.name = Name(src, i)]]

\* A content: None, or a text given by its parts ("" has none).
ContentNone == [k |-> "none", parts |-> <<>>]
Text(parts) == [k |-> "text", parts |-> parts]
Contents == {ContentNone, Text(<<>>), Text(<<"Let me check">>)}
\* message_content is None or message_content == ""
IsEmptyContent(c) == c = ContentNone \/ c = Text(<<>>)

\* message.function_call
NoFunctionCall == [given |-> FALSE, arguments |-> NoArg]
FunctionCall(a) == [given |-> TRUE, arguments |-> a]

Message(content, tool_calls, function_call) ==
    [content |-> content, tool_calls |-> tool_calls, function_call |-> function_call]
Choice(index, finish_reason, message) ==
    [index |-> index, finish_reason |-> finish_reason, message |-> message]
\* A choice after the first.
OtherChoice == Choice(0, "length", Message(Text(<<"other">>), <<>>, NoFunctionCall))
NoOutput == [given |-> FALSE, items |-> <<>>]
Output(items) == [given |-> TRUE, items |-> Named("output", items)]
SourcePayload(wrapped, choices, output) ==
    [wrapped |-> wrapped, inner |-> [choices |-> choices, output |-> output]]

\* The payloads: every shape of the choices list and of the primary choice
\* over plain tool calls and output items; every kind of message.tool_calls
\* entry; every kind of output item.
ShapePayloads ==
    {SourcePayload(w, <<>>, o) : w \in BOOLEAN, o \in {NoOutput} \cup {Output(i) : i \in SeqsUpTo(SimpleItems, MaxOutput)}}
    \cup
    {SourcePayload(w, <<Choice(x, f, Message(c, Named("message", t), NoFunctionCall))>> \o [i \in 1..n |-> OtherChoice], o) :
        w \in BOOLEAN, x \in {NoIndex, 0, 1}, f \in {NoKey, "", "stop"}, c \in Contents,
        t \in SeqsUpTo(PlainEntries, MaxCalls), n \in 0..(MaxChoices - 1),
        o \in {NoOutput} \cup {Output(i) : i \in SeqsUpTo(SimpleItems, MaxOutput)}}
EntryPayloads ==
    {SourcePayload(FALSE, <<Choice(NoIndex, NoKey, Message(ContentNone, Named("message", t), fc))>>, o) :
        t \in SeqsUpTo(RichEntries, MaxCalls),
        fc \in {NoFunctionCall} \cup {FunctionCall(a) : a \in Arguments},
        o \in {NoOutput} \cup {Output(i) : i \in SeqsUpTo(PlainCallItems, 1)}}
ItemPayloads ==
    {SourcePayload(FALSE, c, Output(i)) :
        c \in {<<>>} \cup {<<Choice(NoIndex, NoKey, Message(ContentNone, Named("message", t), NoFunctionCall))>> :
                              t \in SeqsUpTo(SimpleEntries, MaxCalls)},
        i \in SeqsUpTo(RichItems, MaxOutput)}
Payloads == ShapePayloads \cup EntryPayloads \cup ItemPayloads

\* A normalized tool call.
ToolCall(id, type, name, arguments) ==
    [id |-> id, type |-> type, name |-> name, arguments |-> arguments]

\* _extract_text_from_output over the items of output: the texts of the
\* fragments, in order, the empty ones left out.
RECURSIVE ExtractTextFromOutput(_)
ExtractTextFromOutput(items) ==
    IF items = <<>> THEN <<>>
    ELSE Head(items).parts \o ExtractTextFromOutput(Tail(items))

\* _coerce_choices_from_output, lines 634-646: the place of the first item
\* of type message or function_call, 0 when there is none.
RECURSIVE FirstCoercible(_, _)
FirstCoercible(items, i) ==
    IF i > Len(items) THEN 0
    ELSE IF items[i].kind \in {"message", "function_call"} THEN i
    ELSE FirstCoercible(items, i + 1)

\* _coerce_choices_from_output
CoerceChoicesFromOutput(items) ==
    LET i == FirstCoercible(items, 1) IN
        IF i = 0
        THEN <<Choice(0, NoKey, Message(Text(ExtractTextFromOutput(items)), <<>>, NoFunctionCall))>>
        ELSE IF items[i].kind = "message"
        THEN <<Choice(0, IF items[i].status = "completed" THEN "stop" ELSE NoKey,
                      Message(Text(items[i].parts), <<>>, NoFunctionCall))>>
        ELSE <<Choice(0, "tool_calls",
                      Message(ContentNone,
                              <<[is_mapping |-> TRUE,
                                 id |-> IF items[i].call_id = NoId THEN SyntheticId(0) ELSE items[i].call_id,
                                 call_id |-> NoId,
                                 type |-> items[i].kind,
                                 name |-> items[i].name,
                                 function_arguments |-> StringifyArguments(ArgOrEmpty(items[i].arguments)),
                                 arguments |-> NoArg]>>,
                              NoFunctionCall))>>

\* _extract_tool_calls, lines 778-800, from entry i on.
RECURSIVE ExtractFrom(_, _)
ExtractFrom(entries, i) ==
    IF i > Len(entries) THEN <<>>
    ELSE IF ~entries[i].is_mapping THEN ExtractFrom(entries, i + 1)
    ELSE LET e == entries[i]
             arguments == IF e.function_arguments # NoArg THEN e.function_arguments
                          ELSE ArgOrEmpty(e.arguments)
         IN <<ToolCall(OrElse(e.id, OrElse(e.call_id, SyntheticId(i - 1))),
                       IF e.type = NoKey THEN "function" ELSE e.type,
                       e.name,
                       StringifyArguments(arguments))>> \o ExtractFrom(entries, i + 1)

\* _extract_tool_calls
ExtractToolCalls(message) == ExtractFrom(message.tool_calls, 1)

\* _collect_tool_calls, lines 723-735: one call per function_call item.
RECURSIVE OutputToolCalls(_)
OutputToolCalls(items) ==
    IF items = <<>> THEN <<>>
    ELSE LET item == Head(items) IN
        (IF item.kind # "function_call" THEN <<>>
         ELSE <<ToolCall(OrElse(item.call_id, OrElse(item.id, SyntheticId(0))),
                         item.kind,
                         item.name,
                         StringifyArguments(ArgOrEmpty(item.arguments)))>>)
            \o OutputToolCalls(Tail(items))

\* _collect_tool_calls, and the mutant that adds the calls of output to
\* those of the message.
CollectToolCallsMerged(message, response_payload) ==
    ExtractToolCalls(message) \o OutputToolCalls(response_payload.output.items)
CollectToolCalls(message, response_payload) ==
    LET tool_calls == ExtractToolCalls(message) IN
        IF tool_calls # <<>> THEN tool_calls
        ELSE OutputToolCalls(response_payload.output.items)

\* _resolve_message_content (the content; the role is left out), and the
\* mutant that keeps an empty content beside tool calls.
ResolveMessageContentKeepEmpty(message, response_payload, tool_calls) ==
    IF tool_calls = <<>> /\ IsEmptyContent(message.content) /\ response_payload.output.given
    THEN Text(ExtractTextFromOutput(response_payload.output.items))
    ELSE message.content
ResolveMessageContent(message, response_payload, tool_calls) ==
    IF tool_calls # <<>> /\ IsEmptyContent(message.content) THEN ContentNone
    ELSE IF tool_calls = <<>> /\ IsEmptyContent(message.content) /\ response_payload.output.given
    THEN Text(ExtractTextFromOutput(response_payload.output.items))
    ELSE message.content

\* _coerce_function_call
CoerceFunctionCall(message) ==
    IF ~message.function_call.given THEN NoFunctionCall
    ELSE FunctionCall(StringifyArguments(ArgOrEmpty(message.function_call.arguments)))

\* _resolve_finish_reason
ResolveFinishReason(primary_choice, tool_calls) ==
    IF tool_calls # <<>> /\ primary_choice.finish_reason \in {NoKey, ""} THEN "tool_calls"
    ELSE primary_choice.finish_reason

\* transform_response, line 304
ResponsePayload(openai_response) == openai_response.inner

\* transform_response, lines 306-309
ChoicesOf(response_payload) ==
    IF response_payload.choices = <<>> /\ response_payload.output.given
    THEN CoerceChoicesFromOutput(response_payload.output.items)
    ELSE response_payload.choices

\* tool_calls or None
OrNone(tool_calls) == [none |-> tool_calls = <<>>, calls |-> tool_calls]

NoResponse == [kind |-> "none", choices |-> <<>>]

\* transform_response
TransformResponse(openai_response) ==
    LET response_payload == ResponsePayload(openai_response)
        choices == ChoicesOf(response_payload)
    IN IF choices = <<>> THEN [kind |-> "RuntimeError", choices |-> <<>>]
       ELSE LET primary_choice == choices[1]
                message_payload == primary_choice.message
                tool_calls == CollectToolCalls(message_payload, response_payload)
            IN [kind |-> "ModelResponse",
                choices |->
                    <<[finish_reason |-> ResolveFinishReason(primary_choice, tool_calls),
                       index |-> IF primary_choice.index = NoIndex THEN 0 ELSE primary_choice.index,
                       message |->
                           [content |-> ResolveMessageContent(message_payload, response_payload, tool_calls),
                            tool_calls |-> OrNone(tool_calls),
                            function_call |-> CoerceFunctionCall(message_payload)]]>>]

InitXform ==
    /\ now = StartTime
    /\ fmt = [layout |-> "chatgpt", has_refresh |-> FALSE]
    /\ file = NoFile
    /\ ntok = 0
    /\ cache = EmptyCache
    /\ th = [t \in Threads |-> IdleThread]
    /\ sse = SseIdle
    /\ \E p \in Payloads : xf = [pc |-> "payload", payload |-> p, out |-> NoResponse]
    /\ RestIdle

RunTransformResponse ==
    /\ xf.pc = "payload"
    /\ xf' = [xf EXCEPT !.pc = "done", !.out = TransformResponse(xf.payload)]
    /\ UNCHANGED <<now, fmt, file, ntok, cache, th, sse, later>>

NextXform == RunTransformResponse

SpecXform == InitXform /\ [][NextXform]_vars

(***************************************************************************)
(*                              Strings                                    *)
(* A model string is the sequence of its characters, so that startswith,   *)
(* endswith, `in`, lower and strip are computed as Python computes them.   *)
(***************************************************************************)

UpperLetters == <<"A", "B", "C", "D", "E", "F", "G", "H", "I", "J", "K", "L", "M", "N", "O", "P", "Q", "R", "S", "T", "U", "V", "W", "X", "Y", "Z">>
LowerLetters == <<"a", "b", "c", "d", "e", "f", "g", "h", "i", "j", "k", "l", "m", "n", "o", "p", "q", "r", "s", "t", "u", "v", "w", "x", "y", "z">>

\* str.lower(), one character
LowerChar(c) ==
    IF \E i \in 1..Len(UpperLetters) : UpperLetters[i] = c
    THEN LowerLetters[CHOOSE i \in 1..Len(UpperLetters) : UpperLetters[i] = c]
    ELSE c
\* str.lower()
Lower(str) == [i \in 1..Len(str) |-> LowerChar(str[i])]
\* str.upper(), one character, and str.upper()
UpperChar(c) ==
    IF \E i \in 1..Len(LowerLetters) : LowerLetters[i] = c
    THEN UpperLetters[CHOOSE i \in 1..Len(LowerLetters) : LowerLetters[i] = c]
    ELSE c
Upper(str) == [i \in 1..Len(str) |-> UpperChar(str[i])]
\* str.startswith(prefix), str.endswith(suffix), `part in str`
StartsWith(str, prefix) ==
    Len(prefix) <= Len(str) /\ SubSeq(str, 1, Len(prefix)) = prefix
EndsWith(str, suffix) ==
    Len(suffix) <= Len(str) /\ SubSeq(str, Len(str) - Len(suffix) + 1, Len(str)) = suffix
Contains(str, part) ==
    \E i \in 0..(Len(str) - Len(part)) : SubSeq(str, i + 1, i + Len(part)) = part
\* str.strip()
RECURSIVE LStrip(_)
LStrip(str) == IF str # <<>> /\ Head(str) = " " THEN LStrip(Tail(str)) ELSE str
RECURSIVE RStrip(_)
RStrip(str) ==
    IF str # <<>> /\ str[Len(str)] = " " THEN RStrip(SubSeq(str, 1, Len(str) - 1)) ELSE str
Strip(str) == RStrip(LStrip(str))

\* The words of model_map.py.
S_codex_oauth_slash == <<"c", "o", "d", "e", "x", "-", "o", "a", "u", "t", "h", "/">>
S_codex_slash == <<"c", "o", "d", "e", "x", "/">>
S_codex_dash == <<"c", "o", "d", "e", "x", "-">>
S_codex == <<"c", "o", "d", "e", "x">>
S_codex_max == <<"c", "o", "d", "e", "x", "-", "m", "a", "x">>
S_codex_mini == <<"c", "o", "d", "e", "x", "-", "m", "i", "n", "i">>
S_gpt_5_1 == <<"g", "p", "t", "-", "5", ".", "1">>
S_gpt_5_1_codex == <<"g", "p", "t", "-", "5", ".", "1", "-", "c", "o", "d", "e", "x">>
S_gpt_5_1_codex_max == <<"g", "p", "t", "-", "5", ".", "1", "-", "c", "o", "d", "e", "x", "-", "m", "a", "x">>
S_gpt_5_1_codex_mini == <<"g", "p", "t", "-", "5", ".", "1", "-", "c", "o", "d", "e", "x", "-", "m", "i", "n", "i">>
S_gpt_5 == <<"g", "p", "t", "-", "5">>
S_gpt_5_codex == <<"g", "p", "t", "-", "5", "-", "c", "o", "d", "e", "x">>
S_gpt_5_codex_max == <<"g", "p", "t", "-", "5", "-", "c", "o", "d", "e", "x", "-", "m", "a", "x">>
S_gpt_5_codex_mini == <<"g", "p", "t", "-", "5", "-", "c", "o", "d", "e", "x", "-", "m", "i", "n", "i">>
\* Names the map does not know.
S_gpt_4o == <<"g", "p", "t", "-", "4", "o">>
S_o3 == <<"o", "3">>

\* get_model_family
GetModelFamily(normalized_model) ==
    LET key == Lower(normalized_model) IN
        IF Contains(key, S_codex_max) THEN "codex-max"
        ELSE IF Contains(key, S_codex_mini) THEN "codex-mini"
        ELSE IF Contains(key, S_codex) THEN "codex"
        ELSE IF Contains(key, S_gpt_5_1) THEN "gpt-5.1"
        ELSE "other"

(***************************************************************************)
(*                              Part IV                                    *)
(* fetch_codex_instructions over the two cache files and the two network   *)
(* calls, each with every outcome it can have.                             *)
(***************************************************************************)

\* constants.py
CODEX_INSTRUCTIONS_CACHE_TTL_SECONDS == 15 * 60
DEFAULT_INSTRUCTIONS == "You are a helpful assistant."

\* time.time() of the call
FetchNow == 4 * CODEX_INSTRUCTIONS_CACHE_TTL_SECONDS

\* The normalized model names the call is made with.
FetchModels ==
    {S_gpt_5_1_codex, S_gpt_5_1_codex_max, S_gpt_5_1_codex_mini, S_gpt_5_1, S_gpt_4o, S_o3}

\* PROMPT_FILES.get(model_family, PROMPT_FILES["codex"])
PromptFile(model_family) ==
    CASE model_family = "codex-max" -> "gpt-5.1-codex-max_prompt.md"
      [] model_family = "gpt-5.1" -> "gpt_5_1_prompt.md"
      [] OTHER -> "gpt_5_codex_prompt.md"

\* FAMILY_ALIASES.get(model_family, model_family)
CacheKey(model_family) == IF model_family = "codex-mini" THEN "codex" ELSE model_family
\* The keys of CACHE_FILES
CacheFileKeys ==
    {"codex-max", "codex", "gpt-5.1", "gpt-5.1-codex", "gpt-5.1-codex-max", "gpt-5.1-codex-mini"}
\* _cache_paths: the instructions file, or the ValueError
CachePaths(model_family) ==
    IF CacheKey(model_family) \notin CacheFileKeys THEN "ValueError"
    ELSE CASE CacheKey(model_family) \in {"codex-max", "gpt-5.1-codex-max"} -> "codex-max-instructions.md"
           [] CacheKey(model_family) = "gpt-5.1" -> "gpt-5.1-instructions.md"
           [] OTHER -> "codex-instructions.md"

\* metadata.last_checked: None, a number, or a JSON value that is no number
LastChecked(k, v) == [k |-> k, v |-> v]
NoLastChecked == LastChecked("none", 0)
LastCheckedValues ==
    {NoLastChecked,
     LastChecked("num", FetchNow - CODEX_INSTRUCTIONS_CACHE_TTL_SECONDS + 1),
     LastChecked("num", FetchNow - CODEX_INSTRUCTIONS_CACHE_TTL_SECONDS),
     LastChecked("text", 0)}

\* CacheMetadata (the url is left out)
CacheMetadata(etag, tag, last_checked) == [etag |-> etag, tag |-> tag, last_checked |-> last_checked]
NoMetadata == CacheMetadata(NoKey, NoKey, NoLastChecked)

\* The metadata file: absent, unreadable (OSError), no UTF-8
\* (UnicodeDecodeError), no JSON, JSON that is no object, or an object.
MetaFile(state, metadata) == [state |-> state, metadata |-> metadata]
MetaFiles ==
    {MetaFile(st, NoMetadata) : st \in {"absent", "unreadable", "undecodable", "not_json", "not_object"}}
        \cup {MetaFile("object", CacheMetadata(t[1], t[2], lc)) :
                t \in {<<NoKey, NoKey>>, <<"etag-1", "tag-1">>}, lc \in LastCheckedValues}

\* The instructions file: absent, unreadable (an OSError other than
\* FileNotFoundError), or readable with its text.
InstrFile(state, text) == [state |-> state, text |-> text]
InstrFiles ==
    {InstrFile("absent", NoKey), InstrFile("unreadable", NoKey),
     InstrFile("text", ""), InstrFile("text", "cached instructions")}

\* _load_cache_metadata: the metadata, or the exception that escapes it
LoadCacheMetadata(f) ==
    CASE f.state = "object" -> [err |-> "none", metadata |-> f.metadata]
      [] f.state = "undecodable" -> [err |-> "UnicodeDecodeError", metadata |-> NoMetadata]
      [] f.state = "not_object" -> [err |-> "AttributeError", metadata |-> NoMetadata]
      [] OTHER -> [err |-> "none", metadata |-> NoMetadata]

\* _load_cached_instructions: the text, None, or the exception
LoadCachedInstructions(f) ==
    CASE f.state = "text" -> [err |-> "none", text |-> f.text]
      [] f.state = "unreadable" -> [err |-> "PermissionError", text |-> NoKey]
      [] OTHER -> [err |-> "none", text |-> NoKey]

\* _should_use_cache: "yes", "no", or the ValueError of float()
ShouldUseCache(metadata, cached, t) ==
    IF metadata.last_checked.k = "none" \/ cached = NoKey THEN "no"
    ELSE IF metadata.last_checked.k = "text" THEN "ValueError"
    ELSE IF t - metadata.last_checked.v < CODEX_INSTRUCTIONS_CACHE_TTL_SECONDS THEN "yes"
    ELSE "no"

\* cached_instructions or constants.DEFAULT_INSTRUCTIONS
CachedOrDefault(cached) == IF cached \in {NoKey, ""} THEN DEFAULT_INSTRUCTIONS ELSE cached

FetchIdle ==
    [pc |-> "start", model |-> <<>>, family |-> NoKey, paths |-> NoKey,
     metadata |-> NoMetadata, cached |-> NoKey, latest_tag |-> NoKey,
     write |-> [instructions |-> NoKey, metadata |-> NoMetadata],
     meta_file |-> MetaFile("absent", NoMetadata), instr_file |-> InstrFile("absent", NoKey),
     downloaded |-> FALSE, out |-> NoKey, err |-> "none"]

AuthOff ==
    /\ now = StartTime
    /\ fmt = [layout |-> "chatgpt", has_refresh |-> FALSE]
    /\ file = NoFile
    /\ ntok = 0
    /\ cache = EmptyCache
    /\ th = [t \in Threads |-> IdleThread]

InitFetch ==
    /\ AuthOff
    /\ sse = SseIdle
    /\ xf = XfIdle
    /\ \E m \in FetchModels, mf \in MetaFiles, jf \in InstrFiles :
          fi = [FetchIdle EXCEPT !.model = m, !.meta_file = mf, !.instr_file = jf]
    /\ mm = MmIdle /\ rc = RcIdle /\ es = EsIdle /\ tr = TrIdle /\ LastIdle

FetchStep(next) ==
    /\ fi' = next
    /\ UNCHANGED <<now, fmt, file, ntok, cache, th, sse, xf, mm, rc, es, tr, last>>

FetchRaise(e) == [fi EXCEPT !.pc = "raised", !.err = e]
FetchReturn(text) == [fi EXCEPT !.pc = "returned", !.out = text]

\* lines 345-347
ResolvePaths ==
    /\ fi.pc = "start"
    /\ LET family == GetModelFamily(fi.model) IN
        FetchStep(IF CachePaths(family) = "ValueError"
                  THEN [FetchRaise("ValueError") EXCEPT !.family = family]
                  ELSE [fi EXCEPT !.pc = "load", !.family = family, !.paths = CachePaths(family)])

\* lines 349-350
LoadCache ==
    /\ fi.pc = "load"
    /\ LET m == LoadCacheMetadata(fi.meta_file)
           c == LoadCachedInstructions(fi.instr_file)
       IN FetchStep(IF m.err # "none" THEN FetchRaise(m.err)
                    ELSE IF c.err # "none" THEN FetchRaise(c.err)
                    ELSE [fi EXCEPT !.pc = "check", !.metadata = m.metadata, !.cached = c.text])

\* lines 353-354
CheckFresh ==
    /\ fi.pc = "check"
    /\ LET use == ShouldUseCache(fi.metadata, fi.cached, FetchNow) IN
        FetchStep(CASE use = "ValueError" -> FetchRaise("ValueError")
                    [] use = "yes" -> FetchReturn(CachedOrDefault(fi.cached))
                    [] OTHER -> [fi EXCEPT !.pc = "tag"])

\* lines 383-386
Fallback == FetchReturn(CachedOrDefault(fi.cached))

\* line 358, _latest_release_tag
LatestReleaseTag ==
    /\ fi.pc = "tag"
    /\ \E outcome \in {"RequestError", "HTTPStatusError", "JSONDecodeError", "no tag_name",
                       "not_object", "tag-1", "tag-2"} :
        FetchStep(CASE outcome \in {"tag-1", "tag-2"} -> [fi EXCEPT !.pc = "get", !.latest_tag = outcome]
                    [] outcome = "not_object" -> FetchRaise("AttributeError")
                    [] OTHER -> Fallback)

\* lines 367-381, up to the write
GetPrompt ==
    /\ fi.pc = "get"
    /\ \E outcome \in {"RequestError", "304", "304 passes raise_for_status", "404", "200"},
          etag \in {NoKey, "etag-2"} :
        FetchStep(
            CASE outcome = "304" /\ fi.cached \notin {NoKey, ""} ->
                    [fi EXCEPT !.pc = "write",
                               !.write = [instructions |-> fi.cached,
                                          metadata |-> CacheMetadata(fi.metadata.etag, fi.latest_tag,
                                                                     LastChecked("num", FetchNow))]]
              [] outcome = "304 passes raise_for_status" /\ fi.cached \in {NoKey, ""} ->
                    [fi EXCEPT !.pc = "write", !.downloaded = TRUE,
                               !.write = [instructions |-> "",
                                          metadata |-> CacheMetadata(etag, fi.latest_tag,
                                                                     LastChecked("num", FetchNow))]]
              [] outcome = "200" ->
                    [fi EXCEPT !.pc = "write", !.downloaded = TRUE,
                               !.write = [instructions |-> "fresh instructions",
                                          metadata |-> CacheMetadata(etag, fi.latest_tag,
                                                                     LastChecked("num", FetchNow))]]
              [] OTHER -> Fallback)

\* _write_cache and the return after it
WriteCache ==
    /\ fi.pc = "write"
    /\ \E ok \in BOOLEAN :
        FetchStep(IF ok
                  THEN [FetchReturn(fi.write.instructions) EXCEPT
                            !.instr_file = InstrFile("text", fi.write.instructions),
                            !.meta_file = MetaFile("object", fi.write.metadata)]
                  ELSE FetchRaise("OSError"))

NextFetch ==
    \/ ResolvePaths
    \/ LoadCache
    \/ CheckFresh
    \/ LatestReleaseTag
    \/ GetPrompt
    \/ WriteCache

SpecFetch == InitFetch /\ [][NextFetch]_vars

(***************************************************************************)
(*                              Part V                                     *)
(* model_map.py: _strip_provider_prefix, normalize_model and               *)
(* extract_reasoning_effort_from_model.                                    *)
(***************************************************************************)

\* The most provider prefixes in front of a model string.
MaxPrefixes == 2

\* The effort tokens, character by character.
S_none == <<"n", "o", "n", "e">>
S_minimal == <<"m", "i", "n", "i", "m", "a", "l">>
S_low == <<"l", "o", "w">>
S_medium == <<"m", "e", "d", "i", "u", "m">>
S_high == <<"h", "i", "g", "h">>
S_xhigh == <<"x", "h", "i", "g", "h">>
\* MODEL_EFFORT_SUFFIXES
MODEL_EFFORT_SUFFIXES == <<S_none, S_minimal, S_low, S_medium, S_high, S_xhigh>>
\* None where a string may stand: a sequence no string spells.
NoStr == <<NoKey>>
\* f"-{suffix}"
Dash(chars) == <<"-">> \o chars

\* BASE_MODELS and alias_bases of _build_model_map: each name with the
\* canonical name it maps to.
ModelNames ==
    {<<S_gpt_5_1_codex, S_gpt_5_1_codex>>, <<S_gpt_5_1_codex_max, S_gpt_5_1_codex_max>>,
     <<S_gpt_5_1_codex_mini, S_gpt_5_1_codex_mini>>, <<S_gpt_5_1, S_gpt_5_1>>,
     <<S_gpt_5_codex, S_gpt_5_1_codex>>, <<S_gpt_5_codex_max, S_gpt_5_1_codex_max>>,
     <<S_gpt_5_codex_mini, S_gpt_5_1_codex_mini>>, <<S_gpt_5, S_gpt_5_1>>}

\* MODEL_MAP as _build_model_map builds it: the entries whose key is `key`
\* (a name, or a name followed by an effort suffix), and the mutant
\* without the keys that carry a suffix.
ModelMapEntriesNoSuffix(key) == {e \in ModelNames : key = e[1]}
ModelMapEntries(key) ==
    {e \in ModelNames :
        \/ key = e[1]
        \/ \E i \in 1..Len(MODEL_EFFORT_SUFFIXES) : key = e[1] \o Dash(MODEL_EFFORT_SUFFIXES[i])}

\* _strip_provider_prefix: the first of the three prefixes the string
\* starts with is cut off, and the rest is stripped of white space.
StripProviderPrefix(model) ==
    IF StartsWith(model, S_codex_oauth_slash)
    THEN Strip(SubSeq(model, Len(S_codex_oauth_slash) + 1, Len(model)))
    ELSE IF StartsWith(model, S_codex_slash)
    THEN Strip(SubSeq(model, Len(S_codex_slash) + 1, Len(model)))
    ELSE IF StartsWith(model, S_codex_dash)
    THEN Strip(SubSeq(model, Len(S_codex_dash) + 1, Len(model)))
    ELSE Strip(model)

\* normalize_model, lines 236-245: the rules for a key the map does not
\* hold, and the mutant without them.
FallbackNone(key, cleaned) == cleaned
FallbackRules(key, cleaned) ==
    IF Contains(key, S_codex_max) THEN S_gpt_5_1_codex_max
    ELSE IF Contains(key, S_codex_mini) THEN S_gpt_5_1_codex_mini
    ELSE IF Contains(key, S_codex) THEN S_gpt_5_1_codex
    ELSE IF Contains(key, S_gpt_5_1) THEN S_gpt_5_1
    ELSE cleaned

\* normalize_model
NormalizeModel(model) ==
    LET cleaned == StripProviderPrefix(model)
        key == Lower(cleaned)
    IN IF ModelMapEntries(key) # {}
       THEN (CHOOSE e \in ModelMapEntries(key) : TRUE)[2]
       ELSE FallbackRules(key, cleaned)

\* extract_reasoning_effort_from_model: the token of the first suffix the
\* key ends with, None (NoStr) when it ends with none of them.
RECURSIVE FirstSuffix(_, _)
FirstSuffix(key, i) ==
    IF i > Len(MODEL_EFFORT_SUFFIXES) THEN NoStr
    ELSE IF EndsWith(key, Dash(MODEL_EFFORT_SUFFIXES[i])) THEN MODEL_EFFORT_SUFFIXES[i]
    ELSE FirstSuffix(key, i + 1)
ExtractReasoningEffortFromModel(model) == FirstSuffix(Lower(StripProviderPrefix(model)), 1)

\* The model strings: white space, provider prefixes in either case, a name
\* the map knows or not, a suffix, all of it in lower or in upper case.
PrefixWords ==
    {S_codex_oauth_slash, S_codex_slash, S_codex_dash,
     Upper(S_codex_oauth_slash), Upper(S_codex_slash), Upper(S_codex_dash)}
BodyWords == {e[1] : e \in ModelNames} \cup {S_gpt_4o, S_o3}
SuffixWords ==
    {<<>>, <<"-", "t", "u", "r", "b", "o">>} \cup {Dash(MODEL_EFFORT_SUFFIXES[i]) : i \in 1..Len(MODEL_EFFORT_SUFFIXES)}
RECURSIVE Concat(_)
Concat(seqs) == IF seqs = <<>> THEN <<>> ELSE Head(seqs) \o Concat(Tail(seqs))
ModelInputs ==
    [space : {"none", "before", "after prefix", "after"},
     prefixes : SeqsUpTo(PrefixWords, MaxPrefixes),
     body : BodyWords,
     suffix : SuffixWords,
     upper : BOOLEAN]
\* The string an input spells.
Spell(in) ==
    LET name == in.body \o in.suffix IN
        (IF in.space = "before" THEN <<" ">> ELSE <<>>)
            \o Concat(in.prefixes)
            \o (IF in.space = "after prefix" THEN <<" ">> ELSE <<>>)
            \o (IF in.upper THEN Upper(name) ELSE name)
            \o (IF in.space = "after" THEN <<" ">> ELSE <<>>)

InitModel ==
    /\ AuthOff
    /\ sse = SseIdle
    /\ xf = XfIdle
    /\ fi = FiIdle
    /\ \E in \in ModelInputs :
          mm = [pc |-> "input", in |-> in, model |-> Spell(in), stripped |-> <<>>,
                effort |-> NoStr, normalized |-> <<>>, again |-> <<>>]
    /\ rc = RcIdle /\ es = EsIdle /\ tr = TrIdle /\ LastIdle

ModelStep(next) ==
    /\ mm' = next
    /\ UNCHANGED <<now, fmt, file, ntok, cache, th, sse, xf, fi, rc, es, tr, last>>

RunStripProviderPrefix ==
    /\ mm.pc = "input"
    /\ ModelStep([mm EXCEPT !.pc = "stripped", !.stripped = StripProviderPrefix(mm.model)])

RunExtractReasoningEffort ==
    /\ mm.pc = "input"
    /\ ModelStep([mm EXCEPT !.pc = "effort", !.effort = ExtractReasoningEffortFromModel(mm.model)])

RunNormalizeModel ==
    /\ mm.pc = "input"
    /\ ModelStep([mm EXCEPT !.pc = "normalized", !.normalized = NormalizeModel(mm.model)])

\* normalize_model applied to its own result
RunNormalizeModelAgain ==
    /\ mm.pc = "normalized"
    /\ ModelStep([mm EXCEPT !.pc = "again", !.again = NormalizeModel(mm.normalized)])

NextModel ==
    \/ RunStripProviderPrefix
    \/ RunExtractReasoningEffort
    \/ RunNormalizeModel
    \/ RunNormalizeModelAgain

SpecModel == InitModel /\ [][NextModel]_vars

(***************************************************************************)
(*                              Part VI                                    *)
(* reasoning.py: _coerce_effort, _clamp_effort and apply_reasoning_config. *)
(***************************************************************************)

S_auto == <<"a", "u", "t", "o">>
DEFAULT_REASONING_EFFORT == S_medium
DEFAULT_VERBOSITY == S_medium
DEFAULT_REASONING_SUMMARY == S_auto
VALID_EFFORTS == {S_none, S_minimal, S_low, S_medium, S_high, S_xhigh}

\* A value of reasoning_effort: None, a string, a dict (with or without an
\* "effort" entry, which is a string or not), or anything else.
EffortValue(kind, has_effort, entry_is_str, chars) ==
    [kind |-> kind, has_effort |-> has_effort, entry_is_str |-> entry_is_str, chars |-> chars]
EffortWords == VALID_EFFORTS \cup {<<>>, Upper(S_high), <<"X", "h", "i", "g", "h">>, <<"b", "o", "g", "u", "s">>}
ReasoningEfforts ==
    {EffortValue("None", FALSE, FALSE, <<>>), EffortValue("int", FALSE, FALSE, <<>>),
     EffortValue("dict", FALSE, FALSE, <<>>), EffortValue("dict", TRUE, FALSE, <<>>)}
        \cup {EffortValue("str", FALSE, FALSE, w) : w \in EffortWords}
        \cup {EffortValue("dict", TRUE, TRUE, w) : w \in EffortWords}

\* `a or b` of two values that are strings or None
OrStr(a, b) == IF a \in {NoStr, <<>>} THEN b ELSE a

\* _coerce_effort, and the mutant that reads no dict
CoerceEffortStringsOnly(reasoning_effort) ==
    IF reasoning_effort.kind = "str" THEN Lower(reasoning_effort.chars) ELSE NoStr
CoerceEffort(reasoning_effort) ==
    IF reasoning_effort.kind = "str" THEN Lower(reasoning_effort.chars)
    ELSE IF reasoning_effort.kind = "dict" /\ reasoning_effort.has_effort /\ reasoning_effort.entry_is_str
    THEN Lower(reasoning_effort.chars)
    ELSE NoStr

\* _clamp_effort, and the mutant that clamps nothing
ClampNothing(family, effort) == effort
ClampEffort(family, effort) ==
    IF family = "codex-mini"
    THEN IF effort \in {S_none, S_minimal, S_low} THEN S_medium
         ELSE IF effort = S_xhigh THEN S_high
         ELSE effort
    ELSE IF family = "codex"
    THEN IF effort = S_minimal THEN S_low
         ELSE IF effort = S_xhigh THEN S_high
         ELSE effort
    ELSE IF family # "codex-max" /\ effort = S_xhigh THEN S_high
    ELSE effort

\* apply_reasoning_config: the effort before the clamp (lines 182-185) and
\* the configuration returned.
ResolveEffort(original_model, reasoning_effort) ==
    LET inferred_effort == ExtractReasoningEffortFromModel(original_model)
        provided_effort == CoerceEffort(reasoning_effort)
        effort == Lower(OrStr(OrStr(provided_effort, inferred_effort), DEFAULT_REASONING_EFFORT))
    IN IF effort \in VALID_EFFORTS THEN effort ELSE DEFAULT_REASONING_EFFORT
ApplyReasoningConfig(original_model, normalized_model, reasoning_effort, verbosity) ==
    [effort |-> ClampEffort(GetModelFamily(normalized_model),
                            ResolveEffort(original_model, reasoning_effort)),
     summary |-> DEFAULT_REASONING_SUMMARY,
     verbosity |-> Lower(OrStr(verbosity, DEFAULT_VERBOSITY))]

\* The calls: the original model with or without a prefix and a suffix, in
\* lower or upper case; a normalized model of each family; the efforts; the
\* verbosities.
OriginalModels ==
    [space : {"none"}, prefixes : {<<>>, <<S_codex_slash>>}, body : {S_gpt_5_1_codex, S_gpt_5, S_o3},
     suffix : SuffixWords, upper : BOOLEAN]
NormalizedModels == {S_gpt_5_1_codex, S_gpt_5_1_codex_max, S_gpt_5_1_codex_mini, S_gpt_5_1, S_gpt_4o}
Verbosities == {NoStr, <<>>, S_low, Upper(S_high)}
NoConfig == [effort |-> NoStr, summary |-> NoStr, verbosity |-> NoStr]

InitReasoning ==
    /\ AuthOff
    /\ sse = SseIdle
    /\ xf = XfIdle
    /\ fi = FiIdle
    /\ mm = MmIdle
    /\ \E in \in OriginalModels, n \in NormalizedModels, e \in ReasoningEfforts, v \in Verbosities :
          rc = [pc |-> "call", in |-> in, original_model |-> Spell(in), normalized_model |-> n,
                reasoning_effort |-> e, verbosity |-> v, effort |-> NoStr, out |-> NoConfig]
    /\ es = EsIdle /\ tr = TrIdle /\ LastIdle

RunApplyReasoningConfig ==
    /\ rc.pc = "call"
    /\ rc' = [rc EXCEPT !.pc = "returned",
                        !.effort = ResolveEffort(rc.original_model, rc.reasoning_effort),
                        !.out = ApplyReasoningConfig(rc.original_model, rc.normalized_model,
                                                     rc.reasoning_effort, rc.verbosity)]
    /\ UNCHANGED <<now, fmt, file, ntok, cache, th, sse, xf, fi, mm, es, tr, last>>

NextReasoning == RunApplyReasoningConfig

SpecReasoning == InitReasoning /\ [][NextReasoning]_vars

(***************************************************************************)
(*                              Part VII                                   *)
(* sse_utils.py: _normalize_event with its helpers, and parse_sse_events   *)
(* reading the lines of a stream one by one.                               *)
(***************************************************************************)

\* The most lines of a stream.
MaxStream == 4

TEXT_EVENT_TYPES ==
    {"text", "text.delta", "text_delta", "response.output_text.delta",
     "response.output_text.delta.partial"}
REASONING_EVENT_TYPES == {"response.reasoning_summary_text.delta", "response.reasoning_text.delta"}
FUNCTION_ARGUMENTS_TYPES ==
    {"function_call.arguments.delta", "function_call_arguments", "function_call",
     "response.function_call_arguments.delta"}
COMPLETION_EVENT_TYPES == {"response.done", "response.completed", "completed", "response"}

\* A key a dict does not hold (None is NoKey).
NoField == "<absent>"
\* `a or b` of two values that are None, "" or an empty dict when falsy
Falsy(a) == a \in {NoKey, NoField, "", "{}"}
OrVal(a, b) == IF Falsy(a) THEN b ELSE a
\* dict.get: None for a key that is not there
Get(v) == IF v = NoField THEN NoKey ELSE v

\* A parsed data value: None, a string (its characters in text), a dict, or
\* a number. Of a dict: its "type" (a string, or the number 5), the keys
\* _extract_delta reads, "item_id", "item" (absent, None, or a dict with or
\* without an "id"), "usage" (a dict "u...", the empty dict, or a number),
\* "finish_reason", and "response" (absent or a dict with its own usage and
\* finish_reason).
DataNone ==
    [kind |-> "None", text |-> <<>>, type |-> NoField, delta |-> NoField, content |-> NoField,
     part_text |-> NoField, item_id |-> NoField, item |-> NoField, usage |-> NoField,
     finish_reason |-> NoField, response |-> NoField, r_usage |-> NoField, r_finish_reason |-> NoField]
DataStr(text) == [DataNone EXCEPT !.kind = "str", !.text = text]
DataInt == [DataNone EXCEPT !.kind = "int"]
DataDict == [DataNone EXCEPT !.kind = "dict"]
S_DONE == <<"[", "D", "O", "N", "E", "]">>
S_hello == <<"h", "e", "l", "l", "o">>

\* _extract_delta
ExtractDelta(payload) ==
    IF payload.kind = "str" THEN payload.text
    ELSE IF payload.kind # "dict" THEN NoStr
    ELSE IF payload.delta \notin {NoField, "5"} THEN <<payload.delta>>
    ELSE IF payload.content \notin {NoField, "5"} THEN <<payload.content>>
    ELSE IF payload.part_text \notin {NoField, "5"} THEN <<payload.part_text>>
    ELSE NoStr

\* _extract_usage_and_finish
IsUsageDict(usage) == usage \in {"{}", "usage 1", "usage 2"}
ExtractUsageAndFinish(payload) ==
    IF payload.kind # "dict" THEN [usage |-> NoKey, finish_reason |-> NoKey]
    ELSE LET usage == IF payload.response = "dict"
                      THEN OrVal(Get(payload.usage), Get(payload.r_usage))
                      ELSE Get(payload.usage)
             finish_reason == IF payload.response = "dict"
                              THEN OrVal(Get(payload.finish_reason), Get(payload.r_finish_reason))
                              ELSE Get(payload.finish_reason)
         IN [usage |-> IF IsUsageDict(usage) THEN usage ELSE NoKey, finish_reason |-> finish_reason]

\* _resolve_raw_type
ResolveRawType(event_type, data) ==
    IF ~Falsy(event_type) THEN event_type
    ELSE IF data.kind = "dict" /\ data.type \notin {NoField, "5"} THEN data.type
    ELSE NoKey

\* _resolve_normalized_type
ResolveNormalizedType(raw_type) ==
    IF raw_type \in TEXT_EVENT_TYPES THEN "text_delta"
    ELSE IF raw_type \in REASONING_EVENT_TYPES THEN "reasoning_delta"
    ELSE IF raw_type \in FUNCTION_ARGUMENTS_TYPES THEN "function_arguments_delta"
    ELSE IF raw_type \in COMPLETION_EVENT_TYPES THEN "completion"
    ELSE OrVal(raw_type, "unknown")

\* An SSEEvent; NoField for a key it does not hold.
SseEvent(type, raw_type, data, id) ==
    [type |-> type, raw_type |-> raw_type, data |-> data, id |-> id, delta |-> <<NoField>>,
     item_id |-> NoField, usage |-> NoField, finish_reason |-> NoField]
NoSseEvent == SseEvent(NoKey, NoKey, DataNone, NoKey)

\* _attach_delta_metadata: the event with its delta and item_id, or the
\* AttributeError of `data.get("item", {}).get("id")` on an item that is None.
DeltaTypes == {"text_delta", "reasoning_delta", "function_arguments_delta"}
AttachDeltaMetadata(event, data, normalized_type) ==
    IF normalized_type \notin DeltaTypes THEN [err |-> "none", event |-> event]
    ELSE LET delta == ExtractDelta(data)
             with_delta == IF delta # NoStr THEN [event EXCEPT !.delta = delta] ELSE event
         IN IF data.kind # "dict" THEN [err |-> "none", event |-> with_delta]
            ELSE IF Falsy(data.item_id) /\ data.item = "None"
            THEN [err |-> "AttributeError", event |-> NoSseEvent]
            ELSE LET item_id == IF ~Falsy(data.item_id) THEN data.item_id
                                ELSE IF data.item \in {NoField, "{}"} THEN NoKey
                                ELSE data.item
                 IN [err |-> "none",
                     event |-> IF Falsy(item_id) THEN with_delta
                               ELSE [with_delta EXCEPT !.item_id = item_id]]

\* _attach_completion_metadata
AttachCompletionMetadata(event, data, normalized_type) ==
    IF normalized_type # "completion" THEN event
    ELSE [event EXCEPT !.usage = ExtractUsageAndFinish(data).usage,
                       !.finish_reason = ExtractUsageAndFinish(data).finish_reason]

\* _normalize_event: None, an event, or the exception that escapes.
NormalizeEvent(event_type, data, event_id) ==
    IF data.kind = "None" \/ (data.kind = "str" /\ Strip(data.text) = <<>>)
    THEN [err |-> "none", is_event |-> FALSE, event |-> NoSseEvent]
    ELSE LET raw_type == ResolveRawType(event_type, data) IN
         IF data.kind = "str" /\ Strip(data.text) = S_DONE
         THEN [err |-> "none", is_event |-> TRUE, event |-> SseEvent("done", raw_type, DataNone, event_id)]
         ELSE LET normalized_type == ResolveNormalizedType(raw_type)
                  attached == AttachDeltaMetadata(SseEvent(normalized_type, raw_type, data, event_id),
                                                  data, normalized_type)
              IN IF attached.err # "none"
                 THEN [err |-> attached.err, is_event |-> FALSE, event |-> NoSseEvent]
                 ELSE [err |-> "none", is_event |-> TRUE,
                       event |-> AttachCompletionMetadata(attached.event, data, normalized_type)]

\* The text after "data:" of a line, stripped, and what json.loads makes of
\* a block of them joined by "\n" and stripped: nothing but white space,
\* one text alone, or several texts, which no JSON document spells here.
DataTexts == {"", "[DONE]", "null", "text json", "created json", "item json"}
RECURSIVE LStripBlock(_)
LStripBlock(texts) ==
    IF texts # <<>> /\ Head(texts) = "" THEN LStripBlock(Tail(texts)) ELSE texts
RECURSIVE RStripBlock(_)
RStripBlock(texts) ==
    IF texts # <<>> /\ texts[Len(texts)] = "" THEN RStripBlock(SubSeq(texts, 1, Len(texts) - 1))
    ELSE texts
JsonLoads(text) ==
    CASE text = "null" -> DataNone
      [] text = "[DONE]" -> DataStr(S_DONE)
      [] text = "text json" -> [DataDict EXCEPT !.type = "text_delta", !.content = "hi"]
      [] text = "created json" -> [DataDict EXCEPT !.type = "response.created", !.response = "dict"]
      [] text = "item json" ->
            [DataDict EXCEPT !.type = "response.output_text.delta", !.delta = "hi", !.item = "None"]
      [] OTHER -> DataStr(<<text>>)
ParseBlock(data_lines) ==
    LET data_block == RStripBlock(LStripBlock(data_lines)) IN
        IF data_block = <<>> THEN DataStr(<<>>)
        ELSE IF Len(data_block) = 1 THEN JsonLoads(data_block[1])
        ELSE DataStr(data_block)

\* A line of the stream: empty, or an "event:", "data:" or "id:" line with
\* the stripped text after the colon, or any other line.
SseLine(field, value) == [field |-> field, value |-> value]
StreamLines ==
    {SseLine("blank", ""), SseLine("other", ": ping"), SseLine("id", "id 1")}
        \cup {SseLine("event", t) : t \in {"text", "response.created"}}
        \cup {SseLine("data", d) : d \in DataTexts}

\* The arguments of a direct call of _normalize_event.
EventTypeArgs ==
    {NoKey, "", "response.created", "unknown", "done"} \cup TEXT_EVENT_TYPES
        \cup REASONING_EVENT_TYPES \cup FUNCTION_ARGUMENTS_TYPES \cup COMPLETION_EVENT_TYPES
DataArgs ==
    {DataNone, DataInt, DataDict, DataStr(<<>>), DataStr(<<" ">>), DataStr(S_hello), DataStr(S_DONE),
     DataStr(<<" ">> \o S_DONE),
     [DataDict EXCEPT !.type = "5", !.delta = "5", !.content = "hi"],
     [DataDict EXCEPT !.type = "response.created"],
     [DataDict EXCEPT !.type = "function_call", !.part_text = "{", !.item = "item 2"],
     [DataDict EXCEPT !.type = "text.delta", !.delta = "hi", !.item_id = "item 1", !.item = "None"],
     [DataDict EXCEPT !.type = "text.delta", !.delta = "hi", !.item = "None"],
     [DataDict EXCEPT !.type = "text.delta", !.item = "{}"],
     [DataDict EXCEPT !.type = "response.completed", !.usage = "usage 1", !.finish_reason = "stop"],
     [DataDict EXCEPT !.type = "response.completed", !.usage = "{}", !.response = "dict",
                      !.r_usage = "usage 2", !.r_finish_reason = "length"],
     [DataDict EXCEPT !.type = "response.done", !.usage = "5", !.response = "dict"]}

NoCall == [event_type |-> NoKey, data |-> DataNone, event_id |-> NoKey]
NoResult == [err |-> "none", is_event |-> FALSE, event |-> NoSseEvent]
EventsStart ==
    [pc |-> "stream", lines |-> <<>>, event_type |-> NoKey, event_id |-> NoKey, data_lines |-> <<>>,
     yielded |-> <<>>, err |-> "none", call |-> NoCall, result |-> NoResult]

InitEvents ==
    /\ AuthOff
    /\ sse = SseIdle
    /\ xf = XfIdle
    /\ fi = FiIdle
    /\ mm = MmIdle
    /\ rc = RcIdle
    /\ \/ es = EventsStart
       \/ \E t \in EventTypeArgs, d \in DataArgs, i \in {NoKey, "id 1"} :
            es = [EventsStart EXCEPT !.pc = "call",
                                     !.call = [event_type |-> t, data |-> d, event_id |-> i]]
    /\ tr = TrIdle /\ LastIdle

EventsStep(next) ==
    /\ es' = next
    /\ UNCHANGED <<now, fmt, file, ntok, cache, th, sse, xf, fi, mm, rc, tr, last>>

\* _flush of parse_sse_events: with data lines collected, the block is
\* parsed and normalized, the three locals are reset, and the event, if
\* there is one, is yielded. The mutant keeps the data lines.
FlushWith(s, kept) ==
    IF s.data_lines = <<>> THEN s
    ELSE LET n == NormalizeEvent(s.event_type, ParseBlock(s.data_lines), s.event_id) IN
         IF n.err # "none" THEN [s EXCEPT !.pc = "raised", !.err = n.err]
         ELSE [s EXCEPT !.event_type = NoKey, !.event_id = NoKey, !.data_lines = kept,
                        !.yielded = IF n.is_event THEN Append(@, n.event) ELSE @]
FlushKeepingData(s) == FlushWith(s, s.data_lines)
Flush(s) == FlushWith(s, <<>>)

\* One turn of the loop over response.aiter_lines(): the next line of the
\* stream is read and handled (lines 199-218).
ReadLine ==
    /\ es.pc = "stream"
    /\ Len(es.lines) < MaxStream
    /\ \E line \in StreamLines :
          LET read == [es EXCEPT !.lines = Append(@, line)] IN
              EventsStep(CASE line.field = "blank" -> Flush(read)
                           [] line.field = "event" -> [read EXCEPT !.event_type = line.value]
                           [] line.field = "data" -> [read EXCEPT !.data_lines = Append(@, line.value)]
                           [] line.field = "id" -> [read EXCEPT !.event_id = line.value]
                           [] OTHER -> read)

\* The stream ends: the last flush (lines 220-221).
EndOfStream ==
    /\ es.pc = "stream"
    /\ LET flushed == Flush(es) IN
          EventsStep(IF flushed.pc = "raised" THEN flushed ELSE [flushed EXCEPT !.pc = "done"])

RunNormalizeEvent ==
    /\ es.pc = "call"
    /\ EventsStep([es EXCEPT !.pc = "returned",
                             !.result = NormalizeEvent(es.call.event_type, es.call.data, es.call.event_id)])

NextEvents ==
    \/ ReadLine
    \/ EndOfStream
    \/ RunNormalizeEvent

SpecEvents == InitEvents /\ [][NextEvents]_vars

(***************************************************************************)
(*                              Part VIII                                  *)
(* streaming_utils.py: ToolCallTracker, under every sequence of its        *)
(* operations.                                                             *)
(***************************************************************************)

\* The most operations on one tracker.
MaxOps == 5

CallIds == {"call_1", "call_2"}
FunctionNames == {"function_1", "function_2"}
ArgumentDeltas == {<<"{">>, <<"1", "}">>}

\* _active_calls: for each call id whether it is a key, and its entry.
NotActive == [on |-> FALSE, name |-> NoKey, arguments |-> <<>>]
NoCalls == [c \in CallIds |-> NotActive]

\* An operation with its arguments, and what an operation returns: None, a
\* tool call chunk, or the copy of the active calls.
Op(name, call_id, fname, delta) == [op |-> name, call_id |-> call_id, name |-> fname, delta |-> delta]
Ret(kind, id, name, arguments, calls) ==
    [kind |-> kind, id |-> id, type |-> IF kind = "chunk" THEN "function" ELSE NoKey,
     index |-> 0, name |-> name, arguments |-> arguments, calls |-> calls]
RetNone == Ret("None", NoKey, NoKey, <<>>, NoCalls)

\* start_tool_call
StartToolCall(active, call_id, name) ==
    [active EXCEPT ![call_id] = [on |-> TRUE, name |-> name, arguments |-> <<>>]]

\* add_arguments_delta, and the mutant that keeps the last delta only
AddArgumentsDeltaReplacing(active, call_id, arguments_delta) ==
    IF active[call_id].on
    THEN [active EXCEPT ![call_id].arguments = arguments_delta]
    ELSE active
AddArgumentsDelta(active, call_id, arguments_delta) ==
    IF active[call_id].on
    THEN [active EXCEPT ![call_id].arguments = @ \o arguments_delta]
    ELSE active

\* finalize_tool_call: the calls left, and the value returned
FinalizeToolCall(active, call_id) ==
    IF ~active[call_id].on THEN [active |-> active, ret |-> RetNone]
    ELSE LET call_data == active[call_id] IN
         [active |-> [active EXCEPT ![call_id] = NotActive],
          ret |-> Ret("chunk", call_id, call_data.name, call_data.arguments, NoCalls)]

\* get_active_calls
GetActiveCalls(active) == Ret("dict", NoKey, NoKey, <<>>, active)

InitTracker ==
    /\ AuthOff
    /\ sse = SseIdle
    /\ xf = XfIdle
    /\ fi = FiIdle
    /\ mm = MmIdle
    /\ rc = RcIdle
    /\ es = EsIdle
    /\ tr = [pc |-> "tracking", active |-> NoCalls, ops |-> <<>>, finalized |-> {}, ret |-> RetNone]
    /\ LastIdle

\* An operation is applied: the calls it leaves, what it returns, and the
\* record of the operations so far and of the ids finalized so far.
TrackerStep(op, active, ret) ==
    /\ Len(tr.ops) < MaxOps
    /\ tr' = [tr EXCEPT !.active = active, !.ret = ret, !.ops = Append(@, op),
                        !.finalized = IF ret.kind = "chunk" THEN @ \cup {ret.id} ELSE @]
    /\ UNCHANGED <<now, fmt, file, ntok, cache, th, sse, xf, fi, mm, rc, es, last>>

DoStartToolCall ==
    /\ tr.pc = "tracking"
    /\ \E c \in CallIds, n \in FunctionNames :
        TrackerStep(Op("start_tool_call", c, n, <<>>), StartToolCall(tr.active, c, n), RetNone)

DoAddArgumentsDelta ==
    /\ tr.pc = "tracking"
    /\ \E c \in CallIds, d \in ArgumentDeltas :
        TrackerStep(Op("add_arguments_delta", c, NoKey, d), AddArgumentsDelta(tr.active, c, d), RetNone)

DoFinalizeToolCall ==
    /\ tr.pc = "tracking"
    /\ \E c \in CallIds :
        TrackerStep(Op("finalize_tool_call", c, NoKey, <<>>),
                    FinalizeToolCall(tr.active, c).active, FinalizeToolCall(tr.active, c).ret)

DoGetActiveCalls ==
    /\ tr.pc = "tracking"
    /\ TrackerStep(Op("get_active_calls", NoKey, NoKey, <<>>), tr.active, GetActiveCalls(tr.active))

DoClear ==
    /\ tr.pc = "tracking"
    /\ TrackerStep(Op("clear", NoKey, NoKey, <<>>), NoCalls, RetNone)

NextTracker ==
    \/ DoStartToolCall
    \/ DoAddArgumentsDelta
    \/ DoFinalizeToolCall
    \/ DoGetActiveCalls
    \/ DoClear

SpecTracker == InitTracker /\ [][NextTracker]_vars

(***************************************************************************)
(*                              Part IX                                    *)
(* The request completion builds: derive_instructions and its helpers      *)
(* (prompts.py), then _build_payload and its helpers (provider.py).        *)
(***************************************************************************)

MaxMessages == 2

\* The first line of each text stands for the whole of it.
PROMPTS_DEFAULT_INSTRUCTIONS == <<"Y", "o", "u", " ", "a", "r", "e", " ", "a", " ", "h", "e", "l", "p", "f", "u", "l", " ", "a", "s", "s", "i", "s", "t", "a", "n", "t", ".">>
LEGACY_TOOLCHAIN_MARKERS == {<<"t", "o", "o", "l", "c", "h", "a", "i", "n", " ", "s", "y", "s", "t", "e", "m", " ", "p", "r", "o", "m", "p", "t">>, <<"t", "o", "o", "l", "c", "h", "a", "i", "n", ":", ":", "s", "y", "s", "t", "e", "m">>, <<"l", "e", "g", "a", "c", "y", " ", "t", "o", "o", "l", "c", "h", "a", "i", "n">>}
TOOL_REMAP_PROMPT == <<"T", "o", "o", "l", " ", "r", "e", "m", "a", "p", "p", "i", "n", "g", ":", " ", "e", "m", "i", "t", " ", "t", "o", "o", "l", " ", "c", "a", "l", "l", "s">>
TOOL_BRIDGE_PROMPT == <<"#", " ", "C", "o", "d", "e", "x", " ", "T", "o", "o", "l", " ", "B", "r", "i", "d", "g", "e">>

\* A content value: absent, None, a string (texts[1]), a mapping (its "text"
\* in texts[1] and its "content" in texts[2], the empty string for a key that
\* is absent or empty) or a list of parts (each a string or a text mapping).
Content(kind, texts) == [kind |-> kind, texts |-> texts]
NoContent == Content("absent", <<>>)
Str(chars) == Content("str", <<chars>>)

\* sep.join(parts)
RECURSIVE Join(_, _)
Join(sep, parts) ==
    IF parts = <<>> THEN <<>>
    ELSE IF Len(parts) = 1 THEN parts[1]
    ELSE parts[1] \o sep \o Join(sep, Tail(parts))

\* [part for part in parts if part]
NonEmpty(parts) == SelectSeq(parts, LAMBDA part : part # <<>>)

\* _coerce_text(content)
CoerceText(content) ==
    CASE content.kind \in {"absent", "None"} -> <<>>
      [] content.kind = "str" -> content.texts[1]
      [] content.kind = "dict" ->
            IF content.texts[1] # <<>> THEN content.texts[1] ELSE content.texts[2]
      [] content.kind = "list" -> Join(<<"\n">>, NonEmpty(content.texts))

\* _is_toolchain_system_prompt(content)
IsToolchainSystemPrompt(content) ==
    LET lowered == Lower(content)
    IN  \E marker \in LEGACY_TOOLCHAIN_MARKERS : Contains(lowered, marker)

\* An entry of tool_calls: None, or a mapping with or without "name" and
\* "arguments" of its own and with or without a "function" mapping that has
\* a "name" and "arguments".
ToolCallEntry(kind, name, arguments, fn_name, fn_arguments) ==
    [kind |-> kind, name |-> name, arguments |-> arguments,
     fn_name |-> fn_name, fn_arguments |-> fn_arguments]
EmptyEntry == ToolCallEntry("dict", NoField, NoArg, NoField, NoArg)
NoneEntry == ToolCallEntry("None", NoField, NoArg, NoField, NoArg)

\* A "function_call" value: absent, or a mapping with a name and arguments.
CallValue(kind, name, arguments) == [kind |-> kind, name |-> name, arguments |-> arguments]
NoCallValue == CallValue("absent", NoField, NoArg)

\* An "output" value: a content, alone or wrapped with its tool_call_id.
OutputValue(tool_call_id, content) == [tool_call_id |-> tool_call_id, content |-> content]
NoOutputValue == OutputValue(NoField, NoContent)

\* A "tool_calls" value: absent, None or a list of entries.
ToolCalls(kind, entries) == [kind |-> kind, entries |-> entries]
NoToolCalls == ToolCalls("absent", <<>>)

\* A message of the caller.
ChatMessage(role, content, id) ==
    [role |-> role, content |-> content, id |-> id, tool_call_id |-> NoField,
     tool_calls |-> NoToolCalls, function_call |-> NoCallValue,
     function_call_output |-> NoContent]

\* cleaned.get("role"), message.get("role", default)
RoleOr(message, default) == IF message.role = NoField THEN default ELSE message.role

\* _clean_message_payload(message)
CleanMessagePayload(message) ==
    LET cleaned == [message EXCEPT !.id = NoField]
    IN  IF /\ cleaned.role = "assistant"
           /\ cleaned.function_call_output # NoContent
           /\ cleaned.function_call = NoCallValue
        THEN [cleaned EXCEPT !.function_call_output = NoContent]
        ELSE cleaned

\* message.get("content")
GetContent(message) ==
    IF message.content = NoContent THEN Content("None", <<>>) ELSE message.content

\* An item of the request's input.
InputItem(type, role, content, output, function_call) ==
    [type |-> type, role |-> role, content |-> content, output |-> output,
     function_call |-> function_call]

\* (message.get("tool_calls") or [None])[0] or {}
FirstToolCall(tool_calls) ==
    IF tool_calls.entries = <<>> THEN EmptyEntry
    ELSE IF tool_calls.entries[1].kind = "None" THEN EmptyEntry
    ELSE tool_calls.entries[1]

\* _to_codex_input(message)
ToCodexInput(message) ==
    IF message.role = "tool" THEN
        LET tool_call_id == Get(message.tool_call_id)
            output == IF tool_call_id # NoKey
                      THEN OutputValue(tool_call_id, GetContent(message))
                      ELSE OutputValue(NoField, GetContent(message))
        IN  InputItem("function_call_output", "tool", NoContent, output, NoCallValue)
    ELSE IF message.tool_calls.kind # "absent" /\ FirstToolCall(message.tool_calls).kind = "dict" THEN
        LET tool_call == FirstToolCall(message.tool_calls)
            arguments == StringifyArguments(ArgOrEmpty(tool_call.arguments))
        IN  InputItem("function_call", RoleOr(message, "assistant"), NoContent, NoOutputValue,
                      CallValue("dict", Get(tool_call.name), arguments))
    ELSE IF message.function_call_output # NoContent THEN
        InputItem("function_call_output", RoleOr(message, "assistant"), NoContent,
                  OutputValue(NoField, message.function_call_output), NoCallValue)
    ELSE IF message.function_call # NoCallValue THEN
        InputItem("function_call", RoleOr(message, "assistant"), NoContent, NoOutputValue,
                  message.function_call)
    ELSE
        InputItem("message", RoleOr(message, "user"), GetContent(message), NoOutputValue,
                  NoCallValue)

\* The for loop of derive_instructions: the texts of the system messages
\* that are kept, and the input items of the other messages.
RECURSIVE SystemParts(_, _)
SystemParts(messages, codex_mode) ==
    IF messages = <<>> THEN <<>>
    ELSE LET message == Head(messages)
             content == CoerceText(message.content)
             rest_parts == SystemParts(Tail(messages), codex_mode)
         IN  IF message.role # "system" THEN rest_parts
             ELSE IF content = <<>> THEN rest_parts
             ELSE IF codex_mode /\ IsToolchainSystemPrompt(content) THEN rest_parts
             ELSE <<content>> \o rest_parts

RECURSIVE InputPayload(_)
InputPayload(messages) ==
    IF messages = <<>> THEN <<>>
    ELSE IF Head(messages).role = "system" THEN InputPayload(Tail(messages))
    ELSE <<ToCodexInput(CleanMessagePayload(Head(messages)))>> \o InputPayload(Tail(messages))

\* derive_instructions(messages, codex_mode=..., normalized_model=...), where
\* codex_instructions is what get_codex_instructions(normalized_model) returns
DeriveInstructions(messages, codex_mode, codex_instructions) ==
    LET base_instructions == IF codex_mode THEN codex_instructions ELSE TOOL_REMAP_PROMPT
        instructions_parts == <<base_instructions>> \o SystemParts(messages, codex_mode)
        joined == Join(<<"\n", "\n">>, NonEmpty(instructions_parts))
    IN  [instructions |-> IF joined # <<>> THEN joined ELSE PROMPTS_DEFAULT_INSTRUCTIONS,
         input |-> InputPayload(messages)]

\* build_tool_bridge_message()
BuildToolBridgeMessage ==
    InputItem("message", "developer", Content("list", <<TOOL_BRIDGE_PROMPT>>), NoOutputValue,
              NoCallValue)

\* A tool definition: a mapping with or without "type" and "name" of its own,
\* and with or without a "function" mapping that has a "name" (fn_name) and a
\* "description"; the other keys are those _normalize_tools sets. err is set
\* where _normalize_tools raises.
Tool(type, name, fn_name, fn_description) ==
    [err |-> NoKey, type |-> type, name |-> name, fn_name |-> fn_name,
     fn_description |-> fn_description, description |-> NoField, parameters |-> NoField,
     strict |-> NoField]

\* A "tools" value: absent, None, a list of tools, or a string.
Tools(kind, tools) == [kind |-> kind, tools |-> tools]
NoTools == Tools("absent", <<>>)
NoneTools == Tools("None", <<>>)

\* The body of the loop of _normalize_tools, for a mapping.
NormalizeTool(tool) ==
    LET tool_type == OrVal(tool.type, "function")
        tool_dict == [tool EXCEPT !.type = tool_type, !.fn_name = NoField,
                                  !.fn_description = NoField]
    IN  IF tool.fn_name # NoField THEN
            IF Falsy(tool.fn_name) THEN [tool_dict EXCEPT !.err = "ValueError"]
            ELSE [tool_dict EXCEPT
                    !.name = IF tool.name # NoField THEN tool.name ELSE tool.fn_name,
                    !.description = Get(tool.fn_description),
                    !.parameters = "{}",
                    !.strict = NoKey]
        ELSE IF Falsy(tool.name) THEN [tool_dict EXCEPT !.err = "ValueError"]
        ELSE tool_dict

\* _normalize_tools(tools)
NormalizeTools(tools) ==
    IF tools.kind \in {"absent", "None"} THEN [err |-> NoKey, tools |-> NoneTools]
    ELSE IF tools.kind # "list" THEN [err |-> "ValueError", tools |-> NoneTools]
    ELSE IF \E i \in 1..Len(tools.tools) : NormalizeTool(tools.tools[i]).err # NoKey
         THEN [err |-> "ValueError", tools |-> NoneTools]
    ELSE [err |-> NoKey,
          tools |-> Tools("list", [i \in 1..Len(tools.tools) |-> NormalizeTool(tools.tools[i])])]

\* bool(tools)
ToolsGiven(tools) == tools.kind = "str" \/ (tools.kind = "list" /\ tools.tools # <<>>)

\* A variant that never adds the bridge message.
PrepareInputWithoutBridge(messages, tools) == messages

\* _prepare_input(messages=..., tools=...)
PrepareInput(messages, tools) ==
    IF ToolsGiven(tools) THEN <<BuildToolBridgeMessage>> \o messages ELSE messages

PassthroughKeys ==
    {"metadata", "parallel_tool_calls", "prompt", "previous_response_id", "tool_choice", "user"}
UnsupportedKeys ==
    {"max_tokens", "max_output_tokens", "temperature", "safety_identifier",
     "prompt_cache_retention", "truncation", "top_logprobs", "top_p", "service_tier",
     "max_tool_calls", "background"}

\* A mapping of options: a function from the keys it has to their values.
NoOptions == [key \in {} |-> NoKey]
\* {**a, **b}
Merged(a, b) ==
    [key \in DOMAIN a \cup DOMAIN b |-> IF key \in DOMAIN b THEN b[key] ELSE a[key]]

\* A variant that passes every option that is not None.
FilterNothing(options) ==
    LET kept == {key \in DOMAIN options : options[key] # NoKey}
    IN  [key \in kept |-> options[key]]

\* _filter_payload_options(options)
FilterPayloadOptions(options) ==
    LET kept == {key \in DOMAIN options : key \in PassthroughKeys /\ options[key] # NoKey}
    IN  [key \in kept |-> options[key]]

REASONING_INCLUDE_TARGET == "reasoning.encrypted_content"

NoPayload ==
    [model |-> <<>>, input |-> <<>>, instructions |-> <<>>, include |-> <<>>, store |-> FALSE,
     reasoning |-> NoConfig, tools |-> NoTools, options |-> NoOptions,
     prompt_cache_key |-> NoField]

\* The keyword arguments of _build_payload other than the named ones: "tools"
\* and the options. optional_params is the mapping of the caller.
Kwargs(tools, options) == [tools |-> tools, options |-> options]

\* _build_payload(model=..., instructions=..., messages=...,
\* prompt_cache_key=..., reasoning_config=..., **kwargs), with what it leaves
\* in optional_params; the "tools" of optional_params are popped before
\* _normalize_tools looks at them.
BuildPayload(model, instructions, messages, prompt_cache_key, reasoning_config, kwargs, optional_params) ==
    LET from_kwargs == ToolsGiven(kwargs.tools)
        raw_tools == IF from_kwargs THEN kwargs.tools ELSE optional_params.tools
        left == IF from_kwargs THEN optional_params
                ELSE [optional_params EXCEPT !.tools = NoTools]
        normalized == NormalizeTools(raw_tools)
        normalized_tools == normalized.tools
        merged_options == Merged(optional_params.options, kwargs.options)
        payload ==
            [model |-> model,
             input |-> PrepareInput(messages, normalized_tools),
             instructions |-> IF instructions # <<>> THEN instructions ELSE PROMPTS_DEFAULT_INSTRUCTIONS,
             include |-> <<REASONING_INCLUDE_TARGET>>,
             store |-> FALSE,
             reasoning |-> reasoning_config,
             tools |-> IF ToolsGiven(normalized_tools) THEN normalized_tools ELSE NoTools,
             options |-> FilterPayloadOptions(merged_options),
             prompt_cache_key |-> IF Falsy(prompt_cache_key) THEN NoField ELSE prompt_cache_key]
    IN  IF normalized.err # NoKey
        THEN [err |-> normalized.err, payload |-> NoPayload, optional_params |-> left]
        ELSE [err |-> NoKey, payload |-> payload, optional_params |-> left]

\* The messages of the calls: system messages whose content is a string, a
\* mapping or a list, with and without a marker and in either case; user,
\* tool and assistant messages with tool_calls, a function_call or a
\* function_call_output.
S_be_brief == <<"B", "e", " ", "b", "r", "i", "e", "f", ".">>
S_marker_upper == <<"U", "s", "e", " ", "t", "h", "e", " ", "L", "E", "G", "A", "C", "Y", " ", "T", "o", "o", "l", "c", "h", "a", "i", "n", " ", "h", "e", "r", "e">>
S_marker_lower == <<"t", "o", "o", "l", "c", "h", "a", "i", "n", ":", ":", "s", "y", "s", "t", "e", "m", " ", "v", "1">>
S_f == <<"f">>
ArgEmpty == Arg("str", "{}")

SystemMessages ==
    {ChatMessage("system", content, NoField) :
        content \in {Str(S_be_brief), Str(S_marker_upper), Str(S_marker_lower),
                     Content("None", <<>>),
                     Content("dict", <<<<>>, S_marker_upper>>),
                     Content("list", <<S_be_brief, <<>>, S_marker_lower>>)}}

ToolCallEntries ==
    {ToolCallEntry("dict", "f", ArgDict, NoField, NoArg),
     ToolCallEntry("dict", "g", ArgStr, NoField, NoArg),
     ToolCallEntry("dict", NoField, NoArg, "f", ArgStr),
     NoneEntry}

AssistantMessages ==
    {[ChatMessage("assistant", NoContent, NoField) EXCEPT !.tool_calls = ToolCalls("list", entries)] :
        entries \in {<<>>} \cup {<<e>> : e \in ToolCallEntries}
                      \cup {<<ToolCallEntry("dict", "f", ArgList, NoField, NoArg),
                              ToolCallEntry("dict", "g", ArgStr, NoField, NoArg)>>}}
    \cup {[ChatMessage("assistant", NoContent, NoField) EXCEPT
              !.function_call = CallValue("dict", "f", arguments)] :
            arguments \in {ArgStr, ArgDict}}
    \cup {[ChatMessage("assistant", NoContent, "msg_1") EXCEPT
              !.function_call_output = Str(S_f)]}

OtherMessages ==
    {ChatMessage("user", Str(S_be_brief), "msg_1"), ChatMessage(NoField, Str(S_f), NoField)}
    \cup {[ChatMessage("tool", Str(S_f), NoField) EXCEPT !.tool_call_id = id] :
            id \in {NoField, "call_1"}}

ChatMessages == SystemMessages \cup AssistantMessages \cup OtherMessages

\* The tools of the calls.
ToolLists ==
    {NoTools, NoneTools, Tools("list", <<>>),
     Tools("list", <<Tool("function", NoField, "f", "adds")>>),
     Tools("list", <<Tool(NoField, "g", NoField, NoField)>>),
     Tools("list", <<Tool("function", "g", NoField, NoField)>>),
     Tools("list", <<Tool("function", NoField, NoKey, NoField)>>)}

\* The options of the calls: at most one key in the keyword arguments and
\* one in optional_params.
OptionKeys == PassthroughKeys \cup UnsupportedKeys \cup {"timeout"}
OptionMaps(value) ==
    {NoOptions} \cup {[key \in {k} |-> v] : k \in OptionKeys, v \in {NoKey, value}}

CodexInstructions == {<<>>, <<"Y", "o", "u", " ", "a", "r", "e", " ", "C", "o", "d", "e", "x">>}
ReasoningConfig ==
    [effort |-> DEFAULT_REASONING_EFFORT, summary |-> DEFAULT_REASONING_SUMMARY,
     verbosity |-> DEFAULT_VERBOSITY]

OptionalParams(tools, options) == [tools |-> tools, options |-> options]

RequestStart ==
    [pc |-> "messages", messages |-> <<>>, codex_mode |-> TRUE, codex_instructions |-> <<>>,
     kwargs |-> Kwargs(NoTools, NoOptions), prompt_cache_key |-> NoKey,
     given_params |-> OptionalParams(NoTools, NoOptions),
     optional_params |-> OptionalParams(NoTools, NoOptions),
     instructions |-> <<>>, input |-> <<>>, err |-> NoKey,
     payload |-> NoPayload, again |-> NoPayload,
     call |-> ChatMessage(NoField, NoContent, NoField),
     result |-> InputItem("none", NoField, NoContent, NoOutputValue, NoCallValue)]

\* A call of completion with messages of every kind, a call with tools of
\* every kind, a call with options of every kind, or a call of
\* _to_codex_input alone.
InitRequest ==
    /\ AuthOff
    /\ sse = SseIdle
    /\ xf = XfIdle
    /\ fi = FiIdle /\ mm = MmIdle /\ rc = RcIdle /\ es = EsIdle /\ tr = TrIdle
    /\ ad = AdIdle /\ he = HeIdle
    /\ \/ \E messages \in SeqsUpTo(ChatMessages, MaxMessages), codex_mode \in BOOLEAN,
            codex_instructions \in CodexInstructions,
            tools \in {NoTools, Tools("list", <<Tool(NoField, "g", NoField, NoField)>>)} :
            rq = [RequestStart EXCEPT !.messages = messages, !.codex_mode = codex_mode,
                                      !.codex_instructions = codex_instructions,
                                      !.kwargs = Kwargs(tools, NoOptions)]
       \/ \E kw_tools \in ToolLists, op_tools \in ToolLists,
            kw_options \in {NoOptions, [key \in {"temperature"} |-> "a"]},
            op_options \in {NoOptions, [key \in {"user"} |-> "b"]},
            prompt_cache_key \in {NoKey, "", "key"} :
            rq = [RequestStart EXCEPT
                    !.messages = <<ChatMessage("user", Str(S_be_brief), NoField)>>,
                    !.kwargs = Kwargs(kw_tools, kw_options),
                    !.prompt_cache_key = prompt_cache_key,
                    !.given_params = OptionalParams(op_tools, op_options),
                    !.optional_params = OptionalParams(op_tools, op_options)]
       \/ \E kw_options \in OptionMaps("a"), op_options \in OptionMaps("b") :
            rq = [RequestStart EXCEPT
                    !.messages = <<ChatMessage("user", Str(S_be_brief), NoField)>>,
                    !.kwargs = Kwargs(NoTools, kw_options),
                    !.given_params = OptionalParams(NoTools, op_options),
                    !.optional_params = OptionalParams(NoTools, op_options)]
       \/ \E message \in ChatMessages :
            rq = [RequestStart EXCEPT !.pc = "call", !.call = message]

RequestStep(next) ==
    /\ rq' = next
    /\ UNCHANGED <<now, fmt, file, ntok, cache, th, sse, xf, fi, mm, rc, es, tr, ad, he>>

\* derive_instructions(messages, ...), as completion calls it first
RunDeriveInstructions ==
    /\ rq.pc = "messages"
    /\ LET derived == DeriveInstructions(rq.messages, rq.codex_mode, rq.codex_instructions)
       IN  RequestStep([rq EXCEPT !.pc = "derived", !.instructions = derived.instructions,
                                  !.input = derived.input])

\* The payload completion builds from what derive_instructions returned.
Built(s) ==
    BuildPayload(S_gpt_5_1_codex, s.instructions, s.input, s.prompt_cache_key, ReasoningConfig,
                 s.kwargs, s.optional_params)

\* self._build_payload(...), as completion calls it next
RunBuildPayload ==
    /\ rq.pc = "derived"
    /\ LET built == Built(rq)
       IN  RequestStep([rq EXCEPT !.pc = IF built.err # NoKey THEN "raised" ELSE "built",
                                  !.err = built.err, !.payload = built.payload,
                                  !.optional_params = built.optional_params])

\* The same call of completion once more, with the same argument objects.
RunCompletionAgain ==
    /\ rq.pc = "built"
    /\ LET derived == DeriveInstructions(rq.messages, rq.codex_mode, rq.codex_instructions)
           built == Built([rq EXCEPT !.instructions = derived.instructions,
                                     !.input = derived.input])
       IN  RequestStep([rq EXCEPT !.pc = IF built.err # NoKey THEN "raised" ELSE "rebuilt",
                                  !.err = built.err, !.again = built.payload,
                                  !.optional_params = built.optional_params])

\* _to_codex_input(message), called alone
RunToCodexInput ==
    /\ rq.pc = "call"
    /\ RequestStep([rq EXCEPT !.pc = "returned", !.result = ToCodexInput(rq.call)])

NextRequest ==
    \/ RunDeriveInstructions
    \/ RunBuildPayload
    \/ RunCompletionAgain
    \/ RunToCodexInput

SpecRequest == InitRequest /\ [][NextRequest]_vars

(***************************************************************************)
(*                              Part X                                     *)
(* _build_usage and build_streaming_chunk (adapter.py), the latter as      *)
(* streaming calls it on the response of completion (provider.py).         *)
(***************************************************************************)

MaxCount == 2

\* A value of a usage mapping: a key that is absent, None, or a number.
Count(kind, n) == [kind |-> kind, n |-> n]
NoCount == Count("absent", 0)
NoneCount == Count("None", 0)
Counts == {NoCount, NoneCount} \cup {Count("int", n) : n \in 0..MaxCount \cup {5, 7}}

\* A usage mapping; None is the mapping with "given" false.
UsageMapping(given, prompt_tokens, input_tokens, completion_tokens, output_tokens, total_tokens) ==
    [given |-> given, prompt_tokens |-> prompt_tokens, input_tokens |-> input_tokens,
     completion_tokens |-> completion_tokens, output_tokens |-> output_tokens,
     total_tokens |-> total_tokens]
EmptyUsage == UsageMapping(TRUE, NoCount, NoCount, NoCount, NoCount, NoCount)
NoneUsage == [EmptyUsage EXCEPT !.given = FALSE]

\* mapping.get(key, default)
GetOr(value, default) == IF value = NoCount THEN default ELSE value
\* int(value or 0)
IntOrZero(value) == IF value.kind = "int" THEN value.n ELSE 0

\* usage_data.get("total_tokens") or (...)
TotalOr(total_tokens, sum) ==
    IF total_tokens.kind = "int" /\ total_tokens.n # 0 THEN total_tokens.n ELSE sum

\* _build_usage(usage)
BuildUsage(usage) ==
    LET usage_data == IF usage.given THEN usage ELSE EmptyUsage
        prompt_tokens == GetOr(usage_data.prompt_tokens,
                               GetOr(usage_data.input_tokens, Count("int", 0)))
        completion_tokens == GetOr(usage_data.completion_tokens,
                                   GetOr(usage_data.output_tokens, Count("int", 0)))
        total_tokens == TotalOr(usage_data.total_tokens,
                                IntOrZero(prompt_tokens) + IntOrZero(completion_tokens))
    IN  [prompt_tokens |-> IntOrZero(prompt_tokens),
         completion_tokens |-> IntOrZero(completion_tokens),
         total_tokens |-> total_tokens]

\* build_streaming_chunk(response); the provider_specific_fields are left out
BuildStreamingChunk(response) ==
    LET choice == IF response.choices # <<>> THEN response.choices[1]
                  ELSE [finish_reason |-> "stop", index |-> 0,
                        message |-> [content |-> Text(<<>>), tool_calls |-> OrNone(<<>>),
                                     function_call |-> NoFunctionCall]]
        content == choice.message.content
        finish_reason == IF choice.finish_reason \in {NoKey, ""} THEN "stop"
                         ELSE choice.finish_reason
    IN  [text |-> IF IsEmptyContent(content) THEN <<>> ELSE content.parts,
         tool_use |-> NoKey,
         is_finished |-> TRUE,
         finish_reason |-> finish_reason,
         usage |-> NoKey,
         index |-> 0]

NoUsage == [prompt_tokens |-> 0, completion_tokens |-> 0, total_tokens |-> 0]

AdapterStart ==
    [pc |-> "usage", usage |-> NoneUsage, result |-> NoUsage, response |-> NoResponse,
     chunks |-> <<>>]

\* A call of _build_usage, or a call of streaming whose completion has
\* returned a response.
InitAdapter ==
    /\ AuthOff
    /\ sse = SseIdle
    /\ xf = XfIdle
    /\ fi = FiIdle /\ mm = MmIdle /\ rc = RcIdle /\ es = EsIdle /\ tr = TrIdle
    /\ rq = RqIdle /\ he = HeIdle
    /\ \/ ad = AdapterStart
       \/ \E p \in Counts, i \in Counts, c \in Counts, o \in Counts, t \in Counts :
            ad = [AdapterStart EXCEPT !.usage = UsageMapping(TRUE, p, i, c, o, t)]
       \/ \E payload \in Payloads :
            /\ TransformResponse(payload).kind = "ModelResponse"
            /\ ad = [AdapterStart EXCEPT !.pc = "response",
                                         !.response = TransformResponse(payload)]

AdapterStep(next) ==
    /\ ad' = next
    /\ UNCHANGED <<now, fmt, file, ntok, cache, th, sse, xf, fi, mm, rc, es, tr, rq, he>>

\* _build_usage(usage)
RunBuildUsage ==
    /\ ad.pc = "usage"
    /\ AdapterStep([ad EXCEPT !.pc = "counted", !.result = BuildUsage(ad.usage)])

\* streaming: the stream of the one chunk build_streaming_chunk returns
RunStreaming ==
    /\ ad.pc = "response"
    /\ AdapterStep([ad EXCEPT !.pc = "streamed", !.chunks = <<BuildStreamingChunk(ad.response)>>])

NextAdapter ==
    \/ RunBuildUsage
    \/ RunStreaming

SpecAdapter == InitAdapter /\ [][NextAdapter]_vars

(***************************************************************************)
(*                              Part XI                                    *)
(* The dispatch of the request over HTTP: _dispatch_via_httpx,             *)
(* _dispatch_via_httpx_async and _format_http_error (provider.py).         *)
(***************************************************************************)

\* The body of an answer: JSON with or without error.message and detail, or
\* text that is no JSON.
ErrorBody(kind, error_message, detail, text) ==
    [kind |-> kind, error_message |-> error_message, detail |-> detail, text |-> text]
ErrorBodies ==
    {ErrorBody("json", m, d, "") : m \in {NoField, "bad token"}, d \in {NoField, "slow down"}}
        \cup {ErrorBody("text", NoField, NoField, "gateway down")}

\* The answer of the backend: its status, its body, its x-ratelimit-remaining
\* header and its retry-after header.
HttpResponse(status_code, body, ratelimit, retry_after) ==
    [status_code |-> status_code, body |-> body, ratelimit |-> ratelimit,
     retry_after |-> retry_after]
StatusCodes == {200, 400, 401, 429, 500, 503}
HttpResponses ==
    {HttpResponse(s, b, l, r) :
        s \in StatusCodes, b \in ErrorBodies, l \in {NoField, "0"}, r \in {NoField, "30"}}

\* response.raise_for_status() of httpx: the message of the HTTPStatusError
\* it raises for a 4xx or 5xx status, in pieces, or no message.
RaiseForStatus(response) ==
    IF response.status_code >= 400 /\ response.status_code < 600
    THEN <<IF response.status_code < 500 THEN "Client error '" ELSE "Server error '",
           ToString(response.status_code), "' for url '/responses'">>
    ELSE <<>>

\* _format_http_error(response): the message, in pieces
FormatHttpError(response) ==
    LET detail == IF response.body.kind = "json"
                  THEN OrVal(Get(response.body.error_message),
                             IF response.body.detail = NoField THEN ""
                             ELSE response.body.detail)
                  ELSE response.body.text
        rate_info == IF response.ratelimit # NoField
                     THEN <<" | rate-limit hints: ", "x-ratelimit-remaining=",
                            response.ratelimit>>
                     ELSE <<>>
        retry_hint == IF ~Falsy(response.retry_after)
                      THEN <<" | retry-after: ", response.retry_after, "s">>
                      ELSE <<>>
    IN  <<"Codex API error ", ToString(response.status_code), ": ", detail>>
            \o rate_info \o retry_hint

DispatchStart ==
    [pc |-> "sent", response |-> HttpResponse(200, ErrorBody("json", NoField, NoField, ""),
                                              NoField, NoField),
     via |-> "httpx", error |-> NoKey, message |-> <<>>, returned |-> FALSE]

\* The request is sent and the backend has answered; or _format_http_error
\* is called on an answer.
InitDispatch ==
    /\ AuthOff
    /\ sse = SseIdle
    /\ xf = XfIdle
    /\ fi = FiIdle /\ mm = MmIdle /\ rc = RcIdle /\ es = EsIdle /\ tr = TrIdle
    /\ rq = RqIdle /\ ad = AdIdle
    /\ \E response \in HttpResponses, via \in {"httpx", "httpx async", "none"} :
          he = [DispatchStart EXCEPT !.pc = IF via = "none" THEN "format" ELSE "sent",
                                     !.via = via, !.response = response]

DispatchStep(next) ==
    /\ he' = next
    /\ UNCHANGED <<now, fmt, file, ntok, cache, th, sse, xf, fi, mm, rc, es, tr, rq, ad>>

\* What the two dispatches do with the answer: the HTTPStatusError of
\* raise_for_status goes to the caller as it is, and a successful answer is
\* parsed and returned.
Dispatched(s) ==
    LET raised == RaiseForStatus(s.response)
    IN  IF raised # <<>>
        THEN [s EXCEPT !.pc = "raised", !.error = "HTTPStatusError", !.message = raised]
        ELSE [s EXCEPT !.pc = "returned", !.returned = TRUE]

\* _dispatch_via_httpx, from the answer on
DispatchViaHttpx ==
    /\ he.pc = "sent" /\ he.via = "httpx"
    /\ DispatchStep(Dispatched(he))

\* _dispatch_via_httpx_async, from the answer on
DispatchViaHttpxAsync ==
    /\ he.pc = "sent" /\ he.via = "httpx async"
    /\ DispatchStep(Dispatched(he))

\* _format_http_error(response), called alone: nothing in the package calls it
RunFormatHttpError ==
    /\ he.pc = "format"
    /\ DispatchStep([he EXCEPT !.pc = "formatted", !.message = FormatHttpError(he.response)])

NextDispatch ==
    \/ DispatchViaHttpx
    \/ DispatchViaHttpxAsync
    \/ RunFormatHttpError

SpecDispatch == InitDispatch /\ [][NextDispatch]_vars

(***************************************************************************)
(* Claims about the bearer-token cache                                     *)
(***************************************************************************)

\* No call stands between its first and its last assignment to the cache.
NoWriteInProgress == \A t \in Threads : th[t].pc \notin {"w2", "w3"}

\* C1: under every interleaving of get_bearer_token calls on one provider
\* the cache is never torn: whenever no call is in the middle of its three
\* assignments, the cached account id is the one of the cached token and the
\* cached expiry was stamped for the cached token.
C1_CacheNeverTorn ==
    NoWriteInProgress =>
        /\ cache.account = AccountOf(cache.token)
        /\ cache.expiry_of = cache.token

\* C2: a call that found the stored token expired calls the refresh at most
\* once; when the refresh or the re-read after it fails, the call raises the
\* CodexAuthTokenExpiredError of its first read, and the step that raises
\* leaves the cached token, account id and expiry as they were.
C2_RefreshOnce == \A t \in Threads : th[t].refreshes <= 1
C2_OriginalErrorRaised ==
    \A t \in Threads :
        (th[t].pc = "raised" /\ th[t].failure # NoErr)
            => th[t].err = Err("CodexAuthTokenExpiredError", "read")
C2_CacheLeftAlone ==
    \A t \in Threads :
        (th[t].pc \in {"refresh", "reread"} /\ th'[t].pc = "raised") => cache' = cache
C2_FailedRefreshRaisesOriginal ==
    /\ [](C2_RefreshOnce /\ C2_OriginalErrorRaised)
    /\ [][C2_CacheLeftAlone]_vars

\* C2 witness: a call has raised after its re-read failed, one refresh made,
\* while the cache holds a token.
C2_Witness ==
    \E t \in Threads :
        /\ th[t].pc = "raised"
        /\ th[t].failure.at = "reread"
        /\ th[t].refreshes = 1
        /\ cache.token # NoToken

\* C3: at the moment get_bearer_token returns a token, the expiry the auth
\* file records for that token, when it records one, has not passed; also
\* when the token is served from the cache.
C3_ReturnedTokenNotExpired ==
    \A t \in Threads :
        (/\ th[t].pc = "returned"
         /\ file.present
         /\ file.token = th[t].ret
         /\ file.expires_at # 0)
            => file.expires_at >= now

(***************************************************************************)
(* Claims about the buffered SSE parsers                                   *)
(***************************************************************************)

SseEvents == ParseDataLines(sse.body)
LastEvent == SseEvents[Len(SseEvents)]

\* C4: when the last data event of a buffered SSE body has type
\* response.completed (and carries a response object), convert_sse_to_json,
\* and parse_response_body on an SSE response, return exactly that event's
\* response, whatever precedes it.
C4_CompletedResponseReturned ==
    (/\ sse.pc = "done"
     /\ sse.fn \in {"convert_sse_to_json", "parse_response_body, text/event-stream"}
     /\ SseEvents # <<>>
     /\ LastEvent.type = "response.completed"
     /\ IsMapping(LastEvent.response))
        => sse.out = Payload(LastEvent.response)

\* What an event yields as a final response: its response, else its data.
Yield(e) == IF IsMapping(e.response) THEN e.response ELSE e.data

\* The events of the list that are response.done or response.completed and
\* yield a mapping.
TerminalYields ==
    {i \in 1..Len(SseEvents) :
        SseEvents[i].type \in TerminalTypes /\ IsMapping(Yield(SseEvents[i]))}

\* Every line of the body is an event whose response, when it has one, is a
\* mapping with members.
PlainEvents ==
    /\ \A i \in 1..Len(sse.body) : sse.body[i].kind = "event"
    /\ \A i \in 1..Len(SseEvents) : SseEvents[i].response \in {Absent} \cup ResponseMaps

\* C5: when a response.done or response.completed event of the list yields
\* a mapping, the scan returns what such an event yields, wherever an event
\* that merely carries a response mapping lies in the list.
C5_TerminalEventPreferred ==
    (/\ sse.pc = "done"
     /\ sse.fn \in {"_extract_response_from_events", "_parse_sse_response"}
     /\ PlainEvents
     /\ TerminalYields # {})
        => sse.out \in {Payload(Yield(SseEvents[i])) : i \in TerminalYields}

(***************************************************************************)
(* Claims about transform_response                                         *)
(***************************************************************************)

Returned == xf.pc = "done" /\ xf.out.kind = "ModelResponse"
OutChoice == xf.out.choices[1]
OutCalls == OutChoice.message.tool_calls.calls
SourceChoices == xf.payload.inner.choices
SourceItems == xf.payload.inner.output.items

\* The source supplied a finish reason: its first choice has one.
SourceFinishReason ==
    SourceChoices # <<>> /\ SourceChoices[1].finish_reason \notin {NoKey, ""}

PrimaryChoice == ChoicesOf(xf.payload.inner)[1]

RECURSIVE MappingEntryNames(_)
MappingEntryNames(entries) ==
    IF entries = <<>> THEN <<>>
    ELSE (IF Head(entries).is_mapping THEN <<Head(entries).name>> ELSE <<>>)
            \o MappingEntryNames(Tail(entries))
RECURSIVE FunctionCallItemNames(_)
FunctionCallItemNames(items) ==
    IF items = <<>> THEN <<>>
    ELSE (IF Head(items).kind = "function_call" THEN <<Head(items).name>> ELSE <<>>)
            \o FunctionCallItemNames(Tail(items))
CallNames(calls) == [i \in 1..Len(calls) |-> calls[i].name]

\* C7: the tool calls of a returned response are those of the primary
\* message's tool_calls, one per mapping in the list and in its order, when
\* there is at least one; otherwise one per function_call item of output, in
\* output order; never calls of both.
C7_ToolCallsFromOneList ==
    Returned =>
        LET fromMessage == MappingEntryNames(PrimaryChoice.message.tool_calls)
            fromOutput == FunctionCallItemNames(SourceItems)
        IN CallNames(OutCalls) = IF fromMessage # <<>> THEN fromMessage ELSE fromOutput

\* A response whose two calls come from output, in output order, because
\* the message's tool_calls holds no mapping.
C7_Witness ==
    /\ Returned
    /\ SourceChoices # <<>>
    /\ SourceChoices[1].message.tool_calls # <<>>
    /\ MappingEntryNames(SourceChoices[1].message.tool_calls) = <<>>
    /\ Len(OutCalls) = 2
    /\ OutCalls[1].name.src = "output"
    /\ OutCalls[1].name.pos < OutCalls[2].name.pos

\* C8: in every response returned, the arguments of each tool call and of
\* the legacy function_call is a string.
C8_ArgumentsAreStrings ==
    Returned =>
        /\ \A i \in 1..Len(OutCalls) : OutCalls[i].arguments.k = "str"
        /\ OutChoice.message.function_call.given => OutChoice.message.function_call.arguments.k = "str"

\* C9: every tool call of a returned response has type "function".
C9_ToolCallTypeFunction ==
    Returned => \A i \in 1..Len(OutCalls) : OutCalls[i].type = "function"

\* C10: every response returned has exactly one choice, with index 0.
C10_OneChoiceIndexZero ==
    Returned => Len(xf.out.choices) = 1 /\ OutChoice.index = 0

(***************************************************************************)
(* Claims about fetch_codex_instructions                                   *)
(***************************************************************************)

\* C11: fetch_codex_instructions never raises, whatever the model name and
\* whatever the outcome of the cache reads, the network calls and the cache
\* writes; when it returns without a download it returns the cached
\* instructions when there are any and the built-in default otherwise.
C11_FetchNeverRaises ==
    /\ fi.pc # "raised"
    /\ (fi.pc = "returned" /\ ~fi.downloaded) => fi.out = CachedOrDefault(fi.cached)

(***************************************************************************)
(* Claims about model_map.py                                               *)
(***************************************************************************)

\* C12: normalize_model is idempotent: applied to its own result it
\* returns that result.
C12_NormalizeIdempotent == mm.pc = "again" => mm.again = mm.normalized

\* A string with two provider prefixes in front of a legacy alias, which
\* normalize_model changes, normalized twice.
C12_Witness ==
    /\ mm.pc = "again"
    /\ Len(mm.in.prefixes) = 2
    /\ mm.in.body = S_gpt_5
    /\ mm.normalized # mm.model
    /\ mm.again = mm.normalized
\* The string with the first of the three prefixes it starts with in any
\* letter-casing cut off and the rest stripped, and the test that it starts
\* with one.
HasPrefixInAnyCase(model) ==
    \/ StartsWith(Lower(model), S_codex_oauth_slash)
    \/ StartsWith(Lower(model), S_codex_slash)
    \/ StartsWith(Lower(model), S_codex_dash)
PrefixRemovedInAnyCase(model) ==
    LET cut == IF StartsWith(Lower(model), S_codex_oauth_slash) THEN Len(S_codex_oauth_slash)
               ELSE IF StartsWith(Lower(model), S_codex_slash) THEN Len(S_codex_slash)
               ELSE Len(S_codex_dash)
    IN Strip(SubSeq(model, cut + 1, Len(model)))

\* C13: for every model string that starts with a provider prefix in any
\* letter-casing, _strip_provider_prefix removes that prefix, trying
\* codex-oauth/ before codex/ before codex-.
C13_PrefixRemovedInAnyCase ==
    (mm.pc = "stripped" /\ HasPrefixInAnyCase(mm.model))
        => mm.stripped = PrefixRemovedInAnyCase(mm.model)

\* The canonical base id of a legacy alias or a base model.
CanonicalBase(name) ==
    IF name \in {S_gpt_5_codex, S_gpt_5_1_codex} THEN S_gpt_5_1_codex
    ELSE IF name \in {S_gpt_5_codex_max, S_gpt_5_1_codex_max} THEN S_gpt_5_1_codex_max
    ELSE IF name \in {S_gpt_5_codex_mini, S_gpt_5_1_codex_mini} THEN S_gpt_5_1_codex_mini
    ELSE S_gpt_5_1
\* An input that spells at most one provider prefix as the code writes it,
\* then a legacy alias or a base model in any letter-casing, then nothing or
\* one of the six effort suffixes.
IsKnownName(in) ==
    /\ in.space # "before"
    /\ \/ in.prefixes = <<>>
       \/ Len(in.prefixes) = 1 /\ in.prefixes[1] = Lower(in.prefixes[1])
    /\ in.body \in {S_gpt_5_codex, S_gpt_5_codex_max, S_gpt_5_codex_mini, S_gpt_5,
                    S_gpt_5_1_codex, S_gpt_5_1_codex_max, S_gpt_5_1_codex_mini, S_gpt_5_1}
    /\ in.suffix # <<"-", "t", "u", "r", "b", "o">>

ClampTable(family, effort) ==
    CASE family = "codex-mini" /\ effort \in {S_none, S_minimal, S_low} -> S_medium
      [] family = "codex-mini" /\ effort = S_xhigh -> S_high
      [] family = "codex" /\ effort = S_minimal -> S_low
      [] family = "codex" /\ effort = S_xhigh -> S_high
      [] family \in {"gpt-5.1", "other"} /\ effort = S_xhigh -> S_high
      [] OTHER -> effort
Accepted(family) ==
    CASE family = "codex-mini" -> {S_medium, S_high}
      [] family = "codex" -> {S_none, S_low, S_medium, S_high}
      [] family = "codex-max" -> {S_none, S_minimal, S_low, S_medium, S_high, S_xhigh}
      [] OTHER -> {S_none, S_minimal, S_low, S_medium, S_high}

\* C15: the effort apply_reasoning_config returns is the one the clamp
\* table gives for the family of normalized_model and the resolved effort,
\* and is one the family accepts.
C15_EffortClamped ==
    rc.pc = "returned" =>
        /\ rc.out.effort = ClampTable(GetModelFamily(rc.normalized_model), rc.effort)
        /\ rc.out.effort \in Accepted(GetModelFamily(rc.normalized_model))

\* gpt-5.1-codex-mini with effort xhigh from the suffix returns high.
C15_Witness ==
    /\ rc.pc = "returned"
    /\ rc.normalized_model = S_gpt_5_1_codex_mini
    /\ rc.reasoning_effort.kind = "None"
    /\ rc.in.suffix = Dash(S_xhigh)
    /\ rc.effort = S_xhigh
    /\ rc.out.effort = S_high

\* The effort suffix the original model was spelled with, None without one.
SuffixSpelled(in) ==
    IF \E i \in 1..Len(MODEL_EFFORT_SUFFIXES) : in.suffix = Dash(MODEL_EFFORT_SUFFIXES[i])
    THEN Tail(in.suffix)
    ELSE NoStr
\* The string the caller gave as reasoning_effort, None when there is none.
Explicit(reasoning_effort) ==
    IF reasoning_effort.kind = "str" \/ (reasoning_effort.kind = "dict" /\ reasoning_effort.entry_is_str)
    THEN reasoning_effort.chars
    ELSE NoStr
OrMedium(effort) == IF effort \in VALID_EFFORTS THEN effort ELSE S_medium

NormalizedTags ==
    {"text_delta", "reasoning_delta", "function_arguments_delta", "completion", "done", "unknown"}
AliasTypes ==
    TEXT_EVENT_TYPES \cup REASONING_EVENT_TYPES \cup FUNCTION_ARGUMENTS_TYPES
        \cup COMPLETION_EVENT_TYPES
TagOk(event) ==
    /\ event.type \in NormalizedTags
    /\ (event.raw_type \notin AliasTypes /\ event.type # "done") => event.type = "unknown"

\* C17: every event _normalize_event returns and every event
\* parse_sse_events yields has one of the six normalized tags as its type,
\* and unknown when its raw type is in none of the four alias sets (the
\* [DONE] event apart).
C17_TypeIsNormalizedTag ==
    /\ (es.pc = "returned" /\ es.result.is_event) => TagOk(es.result.event)
    /\ es.pc \in {"stream", "done", "raised"} =>
          \A i \in 1..Len(es.yielded) : TagOk(es.yielded[i])

\* The data of the events due for the lines read: one for each block that
\* a blank line has closed and whose data lines, parsed, are neither None
\* nor a blank string; None for a [DONE] block.
RECURSIVE DataDue(_, _)
DataDue(lines, data_lines) ==
    IF lines = <<>> THEN <<>>
    ELSE IF Head(lines).field = "data"
    THEN DataDue(Tail(lines), Append(data_lines, Head(lines).value))
    ELSE IF Head(lines).field # "blank" THEN DataDue(Tail(lines), data_lines)
    ELSE LET data == ParseBlock(data_lines) IN
         (IF data_lines = <<>> \/ data.kind = "None" \/ (data.kind = "str" /\ Strip(data.text) = <<>>)
          THEN <<>>
          ELSE IF data.kind = "str" /\ Strip(data.text) = S_DONE THEN <<DataNone>>
          ELSE <<data>>) \o DataDue(Tail(lines), <<>>)
DataYielded == [i \in 1..Len(es.yielded) |-> es.yielded[i].data]

\* C18: while parse_sse_events reads a stream, the events yielded so far
\* are those of the blocks closed so far, one each, in the order of the
\* blocks; the end of the stream closes the last block.
C18_YieldedInBlockOrder ==
    /\ es.pc = "stream" => DataYielded = DataDue(es.lines, <<>>)
    /\ es.pc = "done" => DataYielded = DataDue(Append(es.lines, SseLine("blank", "")), <<>>)

\* A text delta closed by a blank line and a [DONE] block closed by the end
\* of the stream, yielded in that order.
C18_Witness ==
    /\ es.pc = "done"
    /\ Len(es.lines) = 3
    /\ es.lines[3].field = "data"
    /\ Len(es.yielded) = 2
    /\ es.yielded[1].type = "text_delta"
    /\ es.yielded[2].type = "done"

(***************************************************************************)
(* Claims about ToolCallTracker                                            *)
(***************************************************************************)

\* C19: a call id that has been finalized is never active again.
C19_FinalizedNeverActive ==
    tr.pc = "tracking" => \A c \in tr.finalized : ~tr.active[c].on

\* Of the operations so far, the last start_tool_call of an id, and the
\* deltas added for the id after it, joined in order.
LastStart(ops, c) ==
    CHOOSE k \in 0..Len(ops) :
        /\ k > 0 => (ops[k].op = "start_tool_call" /\ ops[k].call_id = c)
        /\ \A j \in (k + 1)..Len(ops) : ~(ops[j].op = "start_tool_call" /\ ops[j].call_id = c)
RECURSIVE DeltasFrom(_, _, _)
DeltasFrom(ops, k, c) ==
    IF k > Len(ops) THEN <<>>
    ELSE (IF ops[k].op = "add_arguments_delta" /\ ops[k].call_id = c THEN ops[k].delta ELSE <<>>)
             \o DeltasFrom(ops, k + 1, c)

\* C20: finalize_tool_call on an active id returns a tool call with that
\* id, the name given when the call was started and the deltas added for
\* the id since then joined in order; the id is active no more and every
\* other call is left as it was.
C20_FinalizeReturnsAccumulated ==
    [][\A c \in CallIds :
          (tr.pc = "tracking" /\ tr.active[c].on /\ tr'.ops = Append(tr.ops, Op("finalize_tool_call", c, NoKey, <<>>)))
              => /\ tr'.ret.kind = "chunk"
                 /\ tr'.ret.id = c
                 /\ tr'.ret.name = tr.ops[LastStart(tr.ops, c)].name
                 /\ tr'.ret.arguments = DeltasFrom(tr.ops, LastStart(tr.ops, c) + 1, c)
                 /\ ~tr'.active[c].on
                 /\ \A other \in CallIds \ {c} : tr'.active[other] = tr.active[other]]_vars

\* call_1 finalized with two deltas joined while call_2 stays active.
C20_Witness ==
    /\ tr.pc = "tracking"
    /\ tr.ops # <<>>
    /\ tr.ops[Len(tr.ops)].op = "finalize_tool_call"
    /\ tr.ret.kind = "chunk"
    /\ tr.ret.arguments = <<"{", "1", "}">>
    /\ \E c \in CallIds : c # tr.ret.id /\ tr.active[c].on

\* The raw type and id due for each event of the lines read when every
\* block stands alone: the last event: and id: lines of the block itself,
\* the raw type falling back on the `type` of the block's data.
RECURSIVE TypeAndIdDue(_, _, _, _)
TypeAndIdDue(lines, data_lines, event_type, event_id) ==
    IF lines = <<>> THEN <<>>
    ELSE IF Head(lines).field = "data"
    THEN TypeAndIdDue(Tail(lines), Append(data_lines, Head(lines).value), event_type, event_id)
    ELSE IF Head(lines).field = "event"
    THEN TypeAndIdDue(Tail(lines), data_lines, Head(lines).value, event_id)
    ELSE IF Head(lines).field = "id"
    THEN TypeAndIdDue(Tail(lines), data_lines, event_type, Head(lines).value)
    ELSE IF Head(lines).field # "blank"
    THEN TypeAndIdDue(Tail(lines), data_lines, event_type, event_id)
    ELSE LET data == ParseBlock(data_lines) IN
         (IF data_lines = <<>> \/ data.kind = "None" \/ (data.kind = "str" /\ Strip(data.text) = <<>>)
          THEN <<>>
          ELSE <<[raw_type |-> IF event_type # NoKey THEN event_type
                               ELSE IF data.kind = "dict" /\ data.type # NoField THEN data.type
                               ELSE NoKey,
                  id |-> event_id]>>) \o TypeAndIdDue(Tail(lines), <<>>, NoKey, NoKey)
TypeAndIdYielded ==
    [i \in 1..Len(es.yielded) |-> [raw_type |-> es.yielded[i].raw_type, id |-> es.yielded[i].id]]

\* C29: the raw type and the id of each event parse_sse_events yields come
\* from the event: and id: lines of the event's own block or from the type
\* of its data, never from a line of an earlier block that had no data line.
C29_TypeAndIdFromOwnBlock ==
    /\ es.pc = "stream" => TypeAndIdYielded = TypeAndIdDue(es.lines, <<>>, NoKey, NoKey)
    /\ es.pc = "done" =>
          TypeAndIdYielded = TypeAndIdDue(Append(es.lines, SseLine("blank", "")), <<>>, NoKey, NoKey)


(***************************************************************************)
(* Claims about derive_instructions and _to_codex_input (prompts.py)       *)
(***************************************************************************)

\* The calls of derive_instructions that have returned.
Derived == rq.pc \in {"derived", "built", "rebuilt", "raised"}
\* The flattened text holds one of the legacy markers, in any letter case.
HasLegacyMarker(text) ==
    \E marker \in LEGACY_TOOLCHAIN_MARKERS : Contains(Lower(text), marker)
NonSystemMessages(messages) == SelectSeq(messages, LAMBDA message : message.role # "system")

\* C23: for every message list, derive_instructions leaves out of the
\* instructions every system message whose flattened text holds a legacy
\* marker in any letter case, and gives such a message no input item.
C23_MarkerMessagesLeftOut ==
    Derived =>
        /\ \A i \in 1..Len(rq.messages) :
              (/\ rq.messages[i].role = "system"
               /\ HasLegacyMarker(CoerceText(rq.messages[i].content)))
                 => ~Contains(rq.instructions, CoerceText(rq.messages[i].content))
        /\ Len(rq.input) = Len(NonSystemMessages(rq.messages))

\* The name and the arguments an entry of tool_calls gives, at its top level
\* or under "function".
EntryName(entry) == IF entry.name # NoField THEN entry.name ELSE entry.fn_name
EntryArguments(entry) ==
    IF entry.arguments # NoArg THEN entry.arguments ELSE entry.fn_arguments
Encoded(arguments) ==
    IF arguments.k \in {"dict", "list"} THEN Arg("str", arguments.text) ELSE arguments

\* C24: for a message that is not of role tool and has a non-empty
\* tool_calls list, _to_codex_input returns one function_call item with the
\* name and the arguments of the first entry, JSON-encoded when they are a
\* mapping or a list, whether the entry gives them at its top level or under
\* "function".
C24_FirstToolCallTranslated ==
    (/\ rq.pc = "returned"
     /\ rq.call.role # "tool"
     /\ rq.call.tool_calls.kind = "list"
     /\ rq.call.tool_calls.entries # <<>>
     /\ rq.call.tool_calls.entries[1].kind = "dict")
        => /\ rq.result.type = "function_call"
           /\ rq.result.function_call.name = EntryName(rq.call.tool_calls.entries[1])
           /\ rq.result.function_call.arguments
                 = Encoded(EntryArguments(rq.call.tool_calls.entries[1]))

\* C25: every function_call item of the input derive_instructions returns
\* has arguments that are a string, never a mapping or a list.
C25_ArgumentsAreStrings ==
    Derived =>
        \A i \in 1..Len(rq.input) :
            rq.input[i].type = "function_call"
                => rq.input[i].function_call.arguments.k = "str"


(***************************************************************************)
(* Claims about _build_payload (provider.py)                               *)
(***************************************************************************)

\* The tool list of the caller: the one among the keyword arguments, or else
\* the one in optional_params.
CallerTools ==
    IF rq.kwargs.tools.kind = "list" /\ rq.kwargs.tools.tools # <<>>
    THEN rq.kwargs.tools ELSE rq.given_params.tools
\* One item for each message that is not a system message, in order.
Translated(messages) ==
    LET others == NonSystemMessages(messages)
    IN  [i \in 1..Len(others) |-> ToCodexInput(CleanMessagePayload(others[i]))]
IsBridge(item) ==
    /\ item.type = "message"
    /\ item.role = "developer"
    /\ item.content = Content("list", <<TOOL_BRIDGE_PROMPT>>)

CallerOptions == Merged(rq.given_params.options, rq.kwargs.options)
\* The names of everything the caller gave: the options, prompt_cache_key
\* and tools.
GivenKeys ==
    DOMAIN CallerOptions
        \cup (IF rq.prompt_cache_key # NoKey THEN {"prompt_cache_key"} ELSE {})
        \cup (IF CallerTools.kind # "absent" THEN {"tools"} ELSE {})
\* The keys of the body.
BodyKeys(payload) ==
    DOMAIN payload.options
        \cup (IF payload.prompt_cache_key # NoField THEN {"prompt_cache_key"} ELSE {})
        \cup (IF payload.tools # NoTools THEN {"tools"} ELSE {})
CopiedOptions == {"metadata", "parallel_tool_calls", "prompt", "previous_response_id",
                  "tool_choice", "user"}
DroppedOptions == {"max_tokens", "max_output_tokens", "temperature", "top_p", "top_logprobs",
                   "service_tier", "safety_identifier", "prompt_cache_retention",
                   "truncation", "max_tool_calls", "background"}
\* The six options reach the body unchanged when they are not None, and
\* the eleven never do.
SixCopiedElevenDropped ==
    /\ \A key \in CopiedOptions :
          IF key \in DOMAIN CallerOptions /\ CallerOptions[key] # NoKey
          THEN key \in DOMAIN rq.payload.options
                  /\ rq.payload.options[key] = CallerOptions[key]
          ELSE key \notin DOMAIN rq.payload.options
    /\ \A key \in DroppedOptions : key \notin BodyKeys(rq.payload)

EitherNaming(first, second) ==
    IF first.kind # "absent" THEN (IF first.kind = "int" THEN first.n ELSE 0)
    ELSE IF second.kind = "int" THEN second.n ELSE 0
SourcePrompt == EitherNaming(ad.usage.prompt_tokens, ad.usage.input_tokens)
SourceCompletion == EitherNaming(ad.usage.completion_tokens, ad.usage.output_tokens)
NamingsRead ==
    /\ ad.result.prompt_tokens = (IF ad.usage.given THEN SourcePrompt ELSE 0)
    /\ ad.result.completion_tokens = (IF ad.usage.given THEN SourceCompletion ELSE 0)
    /\ ad.result.prompt_tokens \in Nat
    /\ ad.result.completion_tokens \in Nat
    /\ ad.result.total_tokens \in Nat

\* C26: _build_usage reads both namings: prompt_tokens is the source's
\* prompt_tokens, else its input_tokens, else 0, and completion_tokens
\* likewise; total_tokens is the source's total when it supplies one, and
\* the sum of the two otherwise; all three are integers.
C26_UsageFromEitherNaming ==
    ad.pc = "counted" =>
        /\ NamingsRead
        /\ ad.result.total_tokens =
              IF ad.usage.given /\ ad.usage.total_tokens.kind = "int"
              THEN ad.usage.total_tokens.n
              ELSE ad.result.prompt_tokens + ad.result.completion_tokens

\* C27: when the completed response carries tool calls, the chunks of
\* streaming include a chunk whose tool_use is not None.
C27_ToolCallsYieldToolChunk ==
    (/\ ad.pc = "streamed"
     /\ ~ad.response.choices[1].message.tool_calls.none)
        => \E i \in 1..Len(ad.chunks) : ad.chunks[i].tool_use # NoKey


(***************************************************************************)
(* Claims about the dispatch of the request (provider.py)                  *)
(***************************************************************************)

\* The message has the piece.
Mentions(message, piece) == \E i \in 1..Len(message) : message[i] = piece
\* error.message of a JSON body, or else its detail.
BodyDetail(body) ==
    IF body.kind # "json" THEN NoField
    ELSE IF body.error_message # NoField THEN body.error_message
    ELSE body.detail

\* C28: when the backend answers with a 4xx or 5xx status, completion and
\* acompletion fail with an error whose message has the status code, the
\* error.message or detail of a JSON body, and the rate-limit and
\* retry-after headers; no response is returned.
C28_ErrorMessageTellsAll ==
    (/\ he.pc \in {"raised", "returned"}
     /\ he.response.status_code >= 400)
        => /\ he.pc = "raised"
           /\ ~he.returned
           /\ Mentions(he.message, ToString(he.response.status_code))
           /\ BodyDetail(he.response.body) # NoField
                 => Mentions(he.message, BodyDetail(he.response.body))
           /\ he.response.ratelimit # NoField => Mentions(he.message, he.response.ratelimit)
           /\ he.response.retry_after # NoField
                 => Mentions(he.message, he.response.retry_after)

====
